---- MODULE Spec2Model ----
(***************************************************************************)
(* A model of the robotica node library (src/src/lib.rs, publisher.rs,     *)
(* subscriber.rs, proto.rs): the per-node pubsub registry and its          *)
(* synchronisation with the lifetimes of publisher/subscriber handles, the *)
(* introspection responders, and the wire framing with its typed and       *)
(* untyped encode/decode paths.                                            *)
(*                                                                         *)
(* Strings that the code inspects character by character (type URLs,       *)
(* message names) and all wire buffers are sequences of byte values;       *)
(* ASCII text is written as its codes (47 is '/').                         *)
(***************************************************************************)
EXTENDS Naturals, Integers, Sequences, FiniteSets, TLC

(***************************************************************************)
(* Bounds of the model.                                                    *)
(***************************************************************************)
\* publisher/subscriber objects of the node that may exist at the same time
MaxHandles == 2

HandleIds == 1 .. MaxHandles
Topics == {"t1", "t2"}
Kinds == {"pub", "sub"}

(***************************************************************************)
(* Text: type URLs and message names.                                      *)
(***************************************************************************)
\* '/'
Slash == 47
\* the authority the generated types use ("type.googleapis.com", here "g")
\* and a foreign one ("h")
AuthG == <<103>>
AuthH == <<104>>
\* fully qualified message names: robotica.StringMessage ("S"), a message
\* of the user's ("N"), and a name that no descriptor set defines ("X")
NameS == <<83>>
NameN == <<78>>
NameX == <<88>>

MkUrl(auth, name) == auth \o <<Slash>> \o name

\* The positions of '/' in a string.
SlashPositions(s) == {i \in 1 .. Len(s) : s[i] = Slash}

Min(S) == CHOOSE x \in S : \A y \in S : x <= y

\* str::split('/').nth(1): the segment between the first and the second '/'
\* (or the end); absent when the string holds no '/'.
SplitNth1(s) ==
    LET ps == SlashPositions(s) IN
    IF ps = {} THEN [some |-> FALSE, val |-> <<>>]
    ELSE LET p1 == Min(ps)
             later == {p \in ps : p > p1}
             stop == IF later = {} THEN Len(s) + 1 ELSE Min(later)
         IN  [some |-> TRUE, val |-> SubSeq(s, p1 + 1, stop - 1)]

(***************************************************************************)
(* Results: Ok(val) or Err(kind, arg).                                     *)
(***************************************************************************)
Ok(v) == [ok |-> TRUE, err |-> "none", arg |-> <<>>, val |-> v]
Err(kind, a) == [ok |-> FALSE, err |-> kind, arg |-> a, val |-> <<>>]

message_name_from_type_url(type_url) ==
    LET seg == SplitNth1(type_url) IN
    IF seg.some THEN Ok(seg.val) ELSE Err("InvalidTypeUrl", type_url)

(***************************************************************************)
(* Descriptor sets.  A blob is the bytes of a file-descriptor set; the     *)
(* model keeps what DescriptorPool::decode makes of it: a failure, or the  *)
(* message descriptors it defines.  A descriptor is identified by the pool *)
(* it comes from and its name, and carries the wire schema of its single   *)
(* field 1 ("string" or "int").                                            *)
(***************************************************************************)
Desc(pool, name, schema) == [pool |-> pool, name |-> name, schema |-> schema]
NoDesc == Desc("none", <<>>, "none")

\* robotica_types::DESCRIPTOR_SET_BYTES
DESCRIPTOR_SET_BYTES ==
    [id |-> "builtin", valid |-> TRUE,
     msgs |-> {Desc("builtin", NameS, "string")}]
\* a user's descriptor set: defines N, and redefines S with another schema
UserBlob ==
    [id |-> "user", valid |-> TRUE,
     msgs |-> {Desc("user", NameN, "int"), Desc("user", NameS, "int")}]
\* bytes that are no file-descriptor set
BadBlob == [id |-> "bad", valid |-> FALSE, msgs |-> {}]
UserBlobs == {UserBlob, BadBlob}

\* DescriptorPool::get_message_by_name
get_message_by_name(pool, name) ==
    IF \E d \in pool.msgs : d.name = name
    THEN [some |-> TRUE, val |-> CHOOSE d \in pool.msgs : d.name = name]
    ELSE [some |-> FALSE, val |-> NoDesc]

\* Each blob is decoded into a pool; the first failure is the result.
parse_file_descriptors(file_descriptors_bytes) ==
    IF \E i \in 1 .. Len(file_descriptors_bytes) : ~file_descriptors_bytes[i].valid
    THEN Err("ProtobufDescriptorRead", <<>>)
    ELSE Ok(file_descriptors_bytes)

\* (mutant) the last pool that knows the name
FindMapPools_LastPool(pools, name) ==
    LET hits == {i \in 1 .. Len(pools) : get_message_by_name(pools[i], name).some} IN
    IF hits = {} THEN [some |-> FALSE, val |-> NoDesc]
    ELSE get_message_by_name(pools[CHOOSE i \in hits : \A j \in hits : j <= i], name)

\* Iterator::find_map over the pools: the first pool that knows the name.
FindMapPools(pools, name) ==
    LET hits == {i \in 1 .. Len(pools) : get_message_by_name(pools[i], name).some} IN
    IF hits = {} THEN [some |-> FALSE, val |-> NoDesc]
    ELSE get_message_by_name(pools[Min(hits)], name)

search_file_descriptors_UrlOnMiss(file_descriptor_pools, type_url) ==
    LET mn == message_name_from_type_url(type_url) IN
    IF ~mn.ok THEN mn
    ELSE LET hit == FindMapPools(file_descriptor_pools, mn.val) IN
         IF hit.some THEN Ok(hit.val) ELSE Err("InvalidTypeUrl", type_url)

search_file_descriptors(file_descriptor_pools, type_url) ==
    LET mn == message_name_from_type_url(type_url) IN
    IF ~mn.ok THEN mn
    ELSE LET hit == FindMapPools(file_descriptor_pools, mn.val) IN
         IF hit.some THEN Ok(hit.val) ELSE Err("InvalidTypeUrl", mn.val)

(***************************************************************************)
(* Wire codec (prost).  Buffers are sequences of bytes.                    *)
(***************************************************************************)
RECURSIVE EncodeVarint(_)
\* prost::encoding::encode_varint: seven bits per byte, low group first, the
\* high bit set on every byte but the last
EncodeVarint(n) ==
    IF n < 128 THEN <<n>> ELSE <<128 + (n % 128)>> \o EncodeVarint(n \div 128)

\* The value e of {e}.  Where a value is used several times it is bound as
\* Only({body : x \in {e}}), which evaluates e once, in place of LET x == e
\* IN body.
Only(S) == CHOOSE x \in S : TRUE

Drop(buf, n) == SubSeq(buf, n + 1, Len(buf))
Take(buf, n) == SubSeq(buf, 1, n)

DecodeOk(v, rest) == [ok |-> TRUE, val |-> v, rest |-> rest]
DecodeErr == [ok |-> FALSE, val |-> <<>>, rest |-> <<>>]

RECURSIVE DecodeVarintFrom(_, _, _, _)
DecodeVarintFrom(buf, i, acc, mult) ==
    IF i > Len(buf) \/ i > 10 THEN DecodeErr
    ELSE IF buf[i] < 128 THEN DecodeOk(acc + buf[i] * mult, Drop(buf, i))
    ELSE DecodeVarintFrom(buf, i + 1, acc + (buf[i] - 128) * mult, mult * 128)

\* prost::encoding::decode_varint: the value and the buffer advanced past it;
\* an error when the buffer ends inside the varint
decode_varint(buf) == DecodeVarintFrom(buf, 1, 0, 1)

\* Message::encode_length_delimited_to_vec, given the message's encoding
encode_length_delimited(body) == EncodeVarint(Len(body)) \o body

\* A decoded field: number, wire type, and its varint value or its bytes.
Field(num, wt, int, bytes) == [num |-> num, wt |-> wt, int |-> int, bytes |-> bytes]

RECURSIVE ParseFields(_, _)
\* The field loop of Message::merge: key, then the value by wire type
\* (0 varint, 2 length-delimited, 1 and 5 fixed width); an error on field
\* number 0, on another wire type, or when the buffer ends inside a value.
ParseFields(buf, acc) ==
    IF buf = <<>> THEN DecodeOk(acc, <<>>)
    ELSE Only({
         IF ~key.ok THEN DecodeErr
         ELSE Only({
              IF kw[1] = 0 THEN DecodeErr
              ELSE IF kw[2] = 0
              THEN Only({IF ~v.ok THEN DecodeErr
                         ELSE ParseFields(v.rest, Append(acc, Field(kw[1], kw[2], v.val, <<>>)))
                         : v \in {decode_varint(key.rest)}})
              ELSE IF kw[2] = 2
              THEN Only({IF ~n.ok \/ n.val > Len(n.rest) THEN DecodeErr
                         ELSE ParseFields(Drop(n.rest, n.val),
                                          Append(acc, Field(kw[1], kw[2], 0, Take(n.rest, n.val))))
                         : n \in {decode_varint(key.rest)}})
              ELSE IF kw[2] \in {1, 5}
              THEN Only({IF Len(key.rest) < w THEN DecodeErr
                         ELSE ParseFields(Drop(key.rest, w),
                                          Append(acc, Field(kw[1], kw[2], 0, Take(key.rest, w))))
                         : w \in {IF kw[2] = 1 THEN 8 ELSE 4}})
              ELSE DecodeErr
              : kw \in {<<key.val \div 8, key.val % 8>>}})
         : key \in {decode_varint(buf)}})

\* String fields must be UTF-8; the model's text is ASCII.
IsUtf8(bytes) == \A i \in 1 .. Len(bytes) : bytes[i] < 128

(***************************************************************************)
(* Messages.  A message has one field, data, number 1: a string (as in    *)
(* StringMessage) or an integer (as in the user's message).  data is the   *)
(* string's bytes, or a sequence of one number.  proto3: a field with its  *)
(* default value is not written.                                           *)
(***************************************************************************)
Msg(schema, data) == [schema |-> schema, data |-> data]
DefaultData(schema) == IF schema = "string" THEN <<>> ELSE <<0>>
NoMsg == Msg("none", <<>>)

\* Message::encode for a message of this schema
EncodeMsg(m) ==
    IF m.data = DefaultData(m.schema) THEN <<>>
    ELSE IF m.schema = "string"
         THEN <<10>> \o EncodeVarint(Len(m.data)) \o m.data
         ELSE <<8>> \o EncodeVarint(m.data[1])

RECURSIVE MergeMsg(_, _, _, _)
MergeMsg(schema, fields, i, data) ==
    IF i > Len(fields) THEN DecodeOk(Msg(schema, data), <<>>)
    ELSE Only({
         IF f.num # 1 THEN MergeMsg(schema, fields, i + 1, data)
         ELSE IF schema = "string"
              THEN (IF f.wt = 2 /\ IsUtf8(f.bytes)
                    THEN MergeMsg(schema, fields, i + 1, f.bytes)
                    ELSE DecodeErr)
              ELSE (IF f.wt = 0
                    THEN MergeMsg(schema, fields, i + 1, <<f.int>>)
                    ELSE DecodeErr)
         : f \in {fields[i]}})

\* Message::decode for a message of this schema (M::decode, and
\* DynamicMessage::decode under a descriptor of this schema)
DecodeMsg(schema, bytes) ==
    Only({IF ~fs.ok THEN DecodeErr ELSE MergeMsg(schema, fs.val, 1, DefaultData(schema))
          : fs \in {ParseFields(bytes, <<>>)}})

(***************************************************************************)
(* Header { message_timestamp = 1: Timestamp, type_url = 2: string } and   *)
(* Timestamp { seconds = 1, nanos = 2 }.                                   *)
(***************************************************************************)
Timestamp(seconds, nanos) == [some |-> TRUE, seconds |-> seconds, nanos |-> nanos]
NoTimestamp == [some |-> FALSE, seconds |-> 0, nanos |-> 0]
Header(ts, type_url) == [message_timestamp |-> ts, type_url |-> type_url]
DefaultHeader == Header(NoTimestamp, <<>>)

EncodeTimestamp(ts) ==
    (IF ts.seconds = 0 THEN <<>> ELSE <<8>> \o EncodeVarint(ts.seconds))
    \o (IF ts.nanos = 0 THEN <<>> ELSE <<16>> \o EncodeVarint(ts.nanos))

EncodeHeader(h) ==
    (IF h.message_timestamp.some
     THEN <<10>> \o encode_length_delimited(EncodeTimestamp(h.message_timestamp))
     ELSE <<>>)
    \o (IF h.type_url = <<>> THEN <<>>
        ELSE <<18>> \o encode_length_delimited(h.type_url))

RECURSIVE MergeTimestamp(_, _, _)
MergeTimestamp(fields, i, ts) ==
    IF i > Len(fields) THEN DecodeOk(ts, <<>>)
    ELSE Only({
         IF f.num \notin {1, 2} THEN MergeTimestamp(fields, i + 1, ts)
         ELSE IF f.wt # 0 THEN DecodeErr
         ELSE IF f.num = 1
              THEN MergeTimestamp(fields, i + 1, [ts EXCEPT !.seconds = f.int])
              ELSE MergeTimestamp(fields, i + 1, [ts EXCEPT !.nanos = f.int])
         : f \in {fields[i]}})

RECURSIVE MergeHeader(_, _, _)
MergeHeader(fields, i, h) ==
    IF i > Len(fields) THEN DecodeOk(h, <<>>)
    ELSE Only({
         IF f.num = 1
         THEN Only({
              IF f.wt # 2 \/ ~ts.ok THEN DecodeErr
              ELSE MergeHeader(fields, i + 1, [h EXCEPT !.message_timestamp = ts.val])
              : ts \in {Only({IF inner.ok
                              THEN MergeTimestamp(inner.val, 1,
                                                  IF h.message_timestamp.some
                                                  THEN h.message_timestamp
                                                  ELSE Timestamp(0, 0))
                              ELSE DecodeErr
                              : inner \in {ParseFields(f.bytes, <<>>)}})}})
         ELSE IF f.num = 2
         THEN (IF f.wt = 2 /\ IsUtf8(f.bytes)
               THEN MergeHeader(fields, i + 1, [h EXCEPT !.type_url = f.bytes])
               ELSE DecodeErr)
         ELSE MergeHeader(fields, i + 1, h)
         : f \in {fields[i]}})

\* Header::decode
DecodeHeader(bytes) ==
    Only({IF ~fs.ok THEN DecodeErr ELSE MergeHeader(fs.val, 1, DefaultHeader)
          : fs \in {ParseFields(bytes, <<>>)}})

(***************************************************************************)
(* PublisherList { publishers = 1: repeated PublisherInfo } and            *)
(* PublisherInfo { name = 1: string }; SubscriberList and SubscriberInfo   *)
(* are the same on the wire.  A list is the sequence of its names.         *)
(***************************************************************************)
RECURSIVE EncodeList(_)
EncodeList(names) ==
    IF names = <<>> THEN <<>>
    ELSE <<10>> \o encode_length_delimited(EncodeMsg(Msg("string", Head(names))))
             \o EncodeList(Tail(names))

RECURSIVE MergeList(_, _, _)
MergeList(fields, i, names) ==
    IF i > Len(fields) THEN DecodeOk(names, <<>>)
    ELSE Only({
         IF f.num # 1 THEN MergeList(fields, i + 1, names)
         ELSE IF f.wt # 2 THEN DecodeErr
         ELSE Only({IF ~info.ok THEN DecodeErr
                    ELSE MergeList(fields, i + 1, Append(names, info.val.data))
                    : info \in {DecodeMsg("string", f.bytes)}})
         : f \in {fields[i]}})

\* Message::decode for the message type: "header" for Header, "list" for
\* PublisherList and SubscriberList, else the schema of the message
Decode(type, bytes) ==
    IF type = "header" THEN DecodeHeader(bytes)
    ELSE IF type = "list"
    THEN Only({IF ~fs.ok THEN DecodeErr ELSE MergeList(fs.val, 1, <<>>)
               : fs \in {ParseFields(bytes, <<>>)}})
    ELSE DecodeMsg(type, bytes)

\* String::from_utf8_lossy: what is not UTF-8 becomes U+FFFD (the model's
\* text is ASCII)
from_utf8_lossy(bytes) ==
    [i \in 1 .. Len(bytes) |-> IF bytes[i] < 128 THEN bytes[i] ELSE 65533]

\* Message::decode_length_delimited(&mut buf): the length, then the message
\* from that many bytes; the buffer is advanced past them.  An error when
\* fewer bytes remain than the length says.
decode_length_delimited(type, buf) ==
    Only({IF ~n.ok \/ n.val > Len(n.rest) THEN DecodeErr
          ELSE Only({IF ~m.ok THEN DecodeErr ELSE DecodeOk(m.val, Drop(n.rest, n.val))
                     : m \in {Decode(type, Take(n.rest, n.val))}})
          : n \in {decode_varint(buf)}})

(***************************************************************************)
(* State of a node, and of one subscriber and the samples it is sent.      *)
(***************************************************************************)
VARIABLES
    \* Node.file_descriptor: the list of descriptor-set blobs
    file_descriptor,
    \* PubsubData.publishers / PubsubData.subscribers (behind the mutex)
    publishers,
    subscribers,
    \* the Publisher/Subscriber objects created through the node and not yet
    \* destroyed: slot -> [live, kind, topic]
    handles,
    \* what the last create or destroy call returned (recorded by SpecCalls)
    lastResult,
    \* the publishers/subscribers responder tasks: where each is in its loop,
    \* the list it built, and one handle that was live when it received the
    \* query it is answering (0: none, or destroyed since)
    resp,
    \* one subscriber of a topic: typed (Subscriber<M>) or untyped, with the
    \* descriptor pools it parsed when it was created
    sub,
    \* the samples the transport holds for that subscriber, oldest first
    inbox,
    \* UntypedSubscriber.active_message_descriptor: the one-slot cache
    active_message_descriptor,
    \* what the subscriber's last recv returned, and who had put the sample
    received,
    \* the nodes on the fabric with their responder tasks, and the discovery
    \* queries (list_nodes, list_nodes_publishers, list_nodes_subscribers)
    fabric,
    \* pubsub_data: Arc<Mutex<PubsubData>>, the lock around the registry: the
    \* task that holds the guard, the tasks waiting for it, and the creation
    \* call and the destructor that are under way (followed by SpecLock)
    mutex

\* what the calls on a node's own objects leave alone: the topic's
\* subscriber with its samples, the fabric, and the lock (their steps take
\* and release it within the step)
wire == <<sub, inbox, active_message_descriptor, received, fabric, mutex>>

\* The message types M of Publisher<M> and Subscriber<M>: StringMessage
\* { string data }, and a type generated from the user's descriptor set.
StringMessage == [name |-> NameS, schema |-> "string"]
UserMessage == [name |-> NameN, schema |-> "int"]
MessageTypes == {StringMessage, UserMessage}

Subscriber(M) == [live |-> TRUE, typed |-> TRUE, M |-> M, file_descriptor_pools |-> <<>>]
UntypedSubscriber(pools) ==
    [live |-> TRUE, typed |-> FALSE, M |-> StringMessage, file_descriptor_pools |-> pools]
NoSub == [live |-> FALSE, typed |-> TRUE, M |-> StringMessage, file_descriptor_pools |-> <<>>]

\* Option<(String, MessageDescriptor)>
Some(type_url, message_descriptor) ==
    [some |-> TRUE, type_url |-> type_url, desc |-> message_descriptor]
NoCache == [some |-> FALSE, type_url |-> <<>>, desc |-> NoDesc]

\* What a recv returned.  slice: the bytes handed to the payload decoder;
\* desc: the descriptor an untyped subscriber decoded with.
RecvOk(header, message, slice, desc) ==
    [res |-> "Ok", header |-> header, message |-> message, slice |-> slice,
     desc |-> desc, expected |-> <<>>, actual |-> <<>>, arg |-> <<>>]
RecvErr(kind, expected, actual, arg) ==
    [res |-> kind, header |-> DefaultHeader, message |-> NoMsg, slice |-> <<>>,
     desc |-> NoDesc, expected |-> expected, actual |-> actual, arg |-> arg]

\* A sample on the topic's key.  by, header and msg record who put it there
\* and from what it was built; the subscriber sees the bytes only.
Frame(bytes, by, header, msg) ==
    [bytes |-> bytes, by |-> by, header |-> header, msg |-> msg]
NoFrame == Frame(<<>>, "none", DefaultHeader, NoMsg)

NoReceived == [result |-> RecvErr("none", <<>>, <<>>, <<>>), sender |-> "none"]

Handle(live, kind, topic) == [live |-> live, kind |-> kind, topic |-> topic]
NoHandle == Handle(FALSE, "pub", "t1")

\* type URLs a caller may pass to publish_untyped: resolvable ones, one for
\* a name no pool defines, one without '/', one with two '/' ("g/S/X")
CallerUrls ==
    {MkUrl(AuthG, NameS), MkUrl(AuthG, NameN), MkUrl(AuthG, NameX), AuthG \o NameS,
     MkUrl(MkUrl(AuthG, NameS), NameX)}

\* op: the call; res: "Ok" or the error; arg: the error's payload; declared:
\* whether the call declared a transport publisher/subscriber on its way
OpResult(op, res, arg, declared) ==
    [op |-> op, res |-> res, arg |-> arg, declared |-> declared, type_url |-> <<>>]
\* the result of a call, together with the type URL the caller passed
Called(r, type_url) == [r EXCEPT !.type_url = type_url]

Live(kind) == {h \in HandleIds : handles[h].live /\ handles[h].kind = kind}
LiveTopics(kind) == {handles[h].topic : h \in Live(kind)}
Free == {h \in HandleIds : ~handles[h].live}

Registry(kind) == IF kind = "pub" THEN publishers ELSE subscribers

RespIdle == [pc |-> "recv", msg |-> {}, watch |-> 0]

\* A node on the fabric: its name and the two sets of its PubsubData, as
\* the names' bytes
FabricNode(node_name, pubs, subs) ==
    [node_name |-> node_name, publishers |-> pubs, subscribers |-> subs]

\* the three queryables of a node
Queryables == {"node_names", "publishers", "subscribers"}

\* A responder task at the top of its loop.  queue: the queries its
\* queryable has received and the task has not taken yet, oldest first;
\* query, msg: the query it is answering and the reply it has built;
\* status: "running", "stopped" (returned on disconnect) or "panicked".
Responder == [status |-> "running", queue |-> <<>>, query |-> "none", msg |-> <<>>]

\* A reply as the caller's channel holds it: Reply::result() is Ok(sample)
\* with the payload, or Err(ReplyError)
Reply(ok, payload) == [ok |-> ok, payload |-> payload]

\* A discovery call.  replies: the reply channel; open: the nodes whose
\* responder still holds the query (the channel closes when there is
\* none); names, infos: what list_nodes has collected, what
\* list_nodes_publishers / list_nodes_subscribers returns; status: "idle",
\* "open", "Ok" or the error.  asked and replied record the nodes whose
\* responder was sent the query and the nodes whose reply went out, taken
\* the number of replies the call has received from its channel.
NoGet ==
    [op |-> "none", arg |-> <<>>, status |-> "idle", open |-> {}, replies |-> <<>>,
     names |-> {}, infos |-> <<>>, asked |-> {}, replied |-> {}, taken |-> 0]
QueryIds == {"q1", "q2"}

\* the fabric with these nodes, each as Node::new leaves it: its three
\* responders spawned, no query issued
Fabric(nodes) ==
    [node |-> nodes,
     resp |-> [n \in DOMAIN nodes |-> [k \in Queryables |-> Responder]],
     get |-> [q \in QueryIds |-> NoGet]]

\* The calls that take the lock: a creation call (new_from_session), a
\* destructor, and the two responder tasks, named by their kind
Tasks == {"create", "drop"} \cup Kinds

\* A creation call or a destructor under way: where it is, the kind and the
\* topic of the object, and the object that is being destroyed
Call(pc, kind, topic, h) == [pc |-> pc, kind |-> kind, topic |-> topic, h |-> h]

\* Mutex::new: nobody holds the guard and nobody waits
Unlocked ==
    [holder |-> "none", waiters |-> <<>>,
     call |-> [t \in {"create", "drop"} |-> Call("idle", "pub", "t1", 0)]]

Init ==
    /\ file_descriptor = <<DESCRIPTOR_SET_BYTES>>
    /\ publishers = {}
    /\ subscribers = {}
    /\ handles = [h \in HandleIds |-> NoHandle]
    /\ lastResult = OpResult("new", "Ok", <<>>, FALSE)
    /\ resp = [k \in Kinds |-> RespIdle]
    /\ sub = NoSub
    /\ inbox = <<>>
    /\ active_message_descriptor = NoCache
    /\ received = NoReceived
    /\ fabric = Fabric(<<>>)
    /\ mutex = Unlocked

(***************************************************************************)
(* Node::add_file_descriptors.  It takes &mut self, so it cannot run while *)
(* a Publisher<'_> (which borrows the node) exists.  Each of the user's    *)
(* blobs is added once.                                                    *)
(***************************************************************************)
add_file_descriptors(b) ==
    /\ \A i \in 1 .. Len(file_descriptor) : file_descriptor[i] # b
    /\ Live("pub") = {}
    /\ file_descriptor' = Append(file_descriptor, b)
    /\ UNCHANGED <<publishers, subscribers, handles, resp>>

(***************************************************************************)
(* Creation.  Each new_from_session declares the transport resource, takes *)
(* the registry lock, inserts the topic in the set and returns the object. *)
(* zenoh_ok is whether declare_publisher/declare_subscriber succeeds.  The *)
(* ...Result operators give what the call returns, the actions what it     *)
(* does to the node.                                                       *)
(***************************************************************************)
\* HashSet::insert under pubsub_data.lock()
RegistryInsert(kind, topic) ==
    /\ publishers' = IF kind = "pub" THEN publishers \cup {topic} ELSE publishers
    /\ subscribers' = IF kind = "sub" THEN subscribers \cup {topic} ELSE subscribers

\* Ok(Publisher { .. }) / Ok(Subscriber { .. }): the object exists from now on
Construct(kind, topic) ==
    /\ Free # {}
    /\ handles' = [handles EXCEPT ![Min(Free)] = Handle(TRUE, kind, topic)]

\* the outcome of session.declare_publisher/declare_subscriber(..).await?
DeclareResult(op, zenoh_ok) ==
    IF zenoh_ok THEN OpResult(op, "Ok", <<>>, TRUE) ELSE OpResult(op, "Zenoh", <<>>, FALSE)

\* (mutant) the topic is registered as soon as the transport resource is
\* declared, whatever the call returns afterwards
Created_InsertOnDeclare(r, kind, topic) ==
    /\ Free # {}
    /\ IF r.res = "Ok"
       THEN RegistryInsert(kind, topic) /\ Construct(kind, topic)
       ELSE IF r.declared
            THEN RegistryInsert(kind, topic) /\ UNCHANGED handles
            ELSE UNCHANGED <<publishers, subscribers, handles>>
    /\ UNCHANGED <<file_descriptor, resp>>

\* what a creation call does, given what it returns.  An error return (the
\* `?` after declare_*, parse_file_descriptors or search_file_descriptors)
\* leaves the function before the registry insert and before the object is
\* built; a transport resource declared by then is a local that is dropped,
\* hence undeclared, on the way out.  Transport resources are owned by the
\* objects only: the ones held are those of the live handles.
Created(r, kind, topic) ==
    /\ Free # {}
    /\ IF r.res = "Ok"
       THEN RegistryInsert(kind, topic) /\ Construct(kind, topic)
       ELSE UNCHANGED <<publishers, subscribers, handles>>
    /\ UNCHANGED <<file_descriptor, resp>>

PublisherNewResult(topic, zenoh_ok) == DeclareResult("publish", zenoh_ok)

PublisherNew(topic, zenoh_ok) ==
    Created(PublisherNewResult(topic, zenoh_ok), "pub", topic)

SubscriberNewResult(topic, zenoh_ok) == DeclareResult("subscribe", zenoh_ok)

SubscriberNew(topic, zenoh_ok) ==
    Created(SubscriberNewResult(topic, zenoh_ok), "sub", topic)

\* (mutant) the transport publisher is declared first, as the untyped
\* subscriber does, and the type URL is resolved after it
UntypedPublisherNewResult_DeclareFirst(topic, type_url, zenoh_ok) ==
    LET decl == DeclareResult("publish_untyped", zenoh_ok) IN
    IF decl.res # "Ok" THEN decl
    ELSE LET pools == parse_file_descriptors(file_descriptor) IN
         IF ~pools.ok THEN OpResult("publish_untyped", pools.err, pools.arg, TRUE)
         ELSE LET md == search_file_descriptors(pools.val, type_url) IN
              IF ~md.ok THEN OpResult("publish_untyped", md.err, md.arg, TRUE)
              ELSE decl

\* UntypedPublisher::new_from_session: the pools are parsed and the type URL
\* is resolved before the transport is asked for anything.
UntypedPublisherNewResult(topic, type_url, zenoh_ok) ==
    LET pools == parse_file_descriptors(file_descriptor) IN
    IF ~pools.ok THEN OpResult("publish_untyped", pools.err, pools.arg, FALSE)
    ELSE LET md == search_file_descriptors(pools.val, type_url) IN
         IF ~md.ok THEN OpResult("publish_untyped", md.err, md.arg, FALSE)
         ELSE DeclareResult("publish_untyped", zenoh_ok)

UntypedPublisherNew(topic, type_url, zenoh_ok) ==
    Created(UntypedPublisherNewResult(topic, type_url, zenoh_ok), "pub", topic)

\* UntypedSubscriber::new_from_session: the transport subscriber is declared
\* first; the pools are parsed after it, and a parse error drops it again.
UntypedSubscriberNewResult(topic, zenoh_ok) ==
    LET decl == DeclareResult("subscribe_untyped", zenoh_ok) IN
    IF decl.res # "Ok" THEN decl
    ELSE LET pools == parse_file_descriptors(file_descriptor) IN
         IF ~pools.ok THEN OpResult("subscribe_untyped", pools.err, pools.arg, TRUE)
         ELSE decl

UntypedSubscriberNew(topic, zenoh_ok) ==
    Created(UntypedSubscriberNewResult(topic, zenoh_ok), "sub", topic)

(***************************************************************************)
(* Destruction.  The four Drop impls are the same code on the publishers   *)
(* or the subscribers set: take the registry lock with blocking_lock(),    *)
(* remove the topic, warn if it was not there.  tokio's blocking_lock      *)
(* panics when it is called from within an asynchronous execution context  *)
(* (in_async: the object is dropped by code that runs on the runtime, such *)
(* as the end of a spawned task); the registry is then not touched.  The   *)
(* object and its transport resource are gone either way.                  *)
(***************************************************************************)
\* HashSet::remove under pubsub_data.blocking_lock()
RegistryRemove(kind, topic) ==
    /\ publishers' = IF kind = "pub" THEN publishers \ {topic} ELSE publishers
    /\ subscribers' = IF kind = "sub" THEN subscribers \ {topic} ELSE subscribers

\* "Ok", or "Warn" when HashSet::remove returns false, or "Panic"
DropResult(h, in_async) ==
    IF in_async THEN OpResult("drop", "Panic", <<>>, FALSE)
    ELSE IF handles[h].topic \in Registry(handles[h].kind)
         THEN OpResult("drop", "Ok", <<>>, FALSE)
         ELSE OpResult("drop", "Warn", <<>>, FALSE)

DropHandle(h, in_async) ==
    /\ handles[h].live
    /\ IF DropResult(h, in_async).res = "Panic"
       THEN UNCHANGED <<publishers, subscribers>>
       ELSE RegistryRemove(handles[h].kind, handles[h].topic)
    /\ handles' = [handles EXCEPT ![h] = NoHandle]
    /\ resp' = [k \in Kinds |->
                  IF resp[k].watch = h THEN [resp[k] EXCEPT !.watch = 0] ELSE resp[k]]
    /\ UNCHANGED file_descriptor

(***************************************************************************)
(* Introspection.  Each responder task loops: receive a query, build the   *)
(* list from the registry set under the lock, reply.                       *)
(***************************************************************************)
\* queryable.recv_async().await: a query arrives and is received.  w is a
\* handle of the responder's kind that is live at this moment (or 0).
RespRecv(k, w) ==
    /\ resp[k].pc = "recv"
    /\ w \in Live(k) \cup {0}
    /\ resp' = [resp EXCEPT ![k] = [pc |-> "lock", msg |-> {}, watch |-> w]]
    /\ UNCHANGED <<file_descriptor, publishers, subscribers, handles>>

\* (mutant) the set is read without the lock, while it is being written:
\* the list holds some of its topics
RespSnapshot_Unlocked(k) ==
    /\ resp[k].pc = "lock"
    /\ \E part \in SUBSET Registry(k) :
          resp' = [resp EXCEPT ![k].pc = "reply", ![k].msg = part]
    /\ UNCHANGED <<file_descriptor, publishers, subscribers, handles>>

\* pubsub_data.lock().await and the list built from the set
RespSnapshot(k) ==
    /\ resp[k].pc = "lock"
    /\ resp' = [resp EXCEPT ![k].pc = "reply", ![k].msg = Registry(k)]
    /\ UNCHANGED <<file_descriptor, publishers, subscribers, handles>>

\* query.reply(.., msg).await: the list goes out and the loop starts over
RespReply(k) ==
    /\ resp[k].pc = "reply"
    /\ resp' = [resp EXCEPT ![k] = RespIdle]
    /\ UNCHANGED <<file_descriptor, publishers, subscribers, handles>>

(***************************************************************************)
(* Spec: the handles of a node, its registry and its responders.           *)
(***************************************************************************)
Next ==
    \/ \E t \in Topics, z \in BOOLEAN :
          PublisherNew(t, z) /\ UNCHANGED <<lastResult, wire>>
    \/ \E t \in Topics, z \in BOOLEAN :
          SubscriberNew(t, z) /\ UNCHANGED <<lastResult, wire>>
    \/ \E t \in Topics, u \in CallerUrls, z \in BOOLEAN :
          UntypedPublisherNew(t, u, z) /\ UNCHANGED <<lastResult, wire>>
    \/ \E t \in Topics, z \in BOOLEAN :
          UntypedSubscriberNew(t, z) /\ UNCHANGED <<lastResult, wire>>
    \/ \E h \in HandleIds, a \in BOOLEAN :
          DropHandle(h, a) /\ UNCHANGED <<lastResult, wire>>
    \/ \E k \in Kinds, w \in HandleIds \cup {0} :
          RespRecv(k, w) /\ UNCHANGED <<lastResult, wire>>
    \/ \E k \in Kinds : RespSnapshot(k) /\ UNCHANGED <<lastResult, wire>>
    \/ \E k \in Kinds : RespReply(k) /\ UNCHANGED <<lastResult, wire>>

vars ==
    <<file_descriptor, publishers, subscribers, handles, lastResult, resp,
      sub, inbox, active_message_descriptor, received, fabric, mutex>>

Spec == Init /\ [][Next]_vars

(***************************************************************************)
(* SpecCalls: the create and destroy calls of a node and what they return. *)
(***************************************************************************)
NextCalls ==
    \/ \E b \in UserBlobs :
          add_file_descriptors(b) /\ UNCHANGED <<lastResult, wire>>
    \/ \E t \in Topics, z \in BOOLEAN :
          PublisherNew(t, z) /\ lastResult' = PublisherNewResult(t, z) /\ UNCHANGED wire
    \/ \E t \in Topics, z \in BOOLEAN :
          SubscriberNew(t, z) /\ lastResult' = SubscriberNewResult(t, z) /\ UNCHANGED wire
    \/ \E t \in Topics, u \in CallerUrls, z \in BOOLEAN :
          UntypedPublisherNew(t, u, z) /\ lastResult' = Called(UntypedPublisherNewResult(t, u, z), u) /\ UNCHANGED wire
    \/ \E t \in Topics, z \in BOOLEAN :
          UntypedSubscriberNew(t, z) /\ lastResult' = UntypedSubscriberNewResult(t, z) /\ UNCHANGED wire
    \/ \E h \in HandleIds, a \in BOOLEAN :
          DropHandle(h, a) /\ lastResult' = DropResult(h, a) /\ UNCHANGED wire

SpecCalls == Init /\ [][NextCalls]_vars

(***************************************************************************)
(* The wire: publishers of any node put frames on the topic's key, the     *)
(* subscriber takes them in order (SpecWire).                              *)
(***************************************************************************)
\* frames the transport holds for the subscriber at one time
MaxInbox == 2

\* flume::bounded(100): the capacity of a subscriber's channel
flume_bounded == 100

\* M::type_url(): the domain configured for the generated types (the
\* user's build is taken to configure the same), '/', and the full name
type_url(M) == MkUrl(AuthG, M.name)

Messages(M) ==
    IF M.schema = "string"
    THEN {Msg("string", <<104, 105>>), Msg("string", <<>>)}
    ELSE {Msg("int", <<5>>)}

\* SystemTime::now() as a Timestamp
Clock == {Timestamp(1, 7)}

\* the descriptor lists a node can hold: the built-in set first
PoolChoices == {<<DESCRIPTOR_SET_BYTES>>, <<DESCRIPTOR_SET_BYTES, UserBlob>>}

PublisherFrame_NoPayloadPrefix(M, message, now) ==
    encode_length_delimited(EncodeHeader(Header(now, type_url(M))))
        \o EncodeMsg(message)

\* Publisher::send: the buffer handed to put
PublisherFrame(M, message, now) ==
    encode_length_delimited(EncodeHeader(Header(now, type_url(M))))
        \o encode_length_delimited(EncodeMsg(message))

\* (mutant) the write overtakes the writes issued before it
Put_Overtaking(frame, zenoh_ok) ==
    /\ Len(inbox) < MaxInbox
    /\ inbox' = IF zenoh_ok THEN <<frame>> \o inbox ELSE inbox
    /\ UNCHANGED <<sub, active_message_descriptor, received>>
    /\ UNCHANGED <<file_descriptor, publishers, subscribers, handles, resp, fabric, mutex>>

\* (mutant) the subscriber's channel takes any number of samples
PutWithin_Unbounded(frame, zenoh_ok, bound) ==
    /\ inbox' = IF zenoh_ok THEN Append(inbox, frame) ELSE inbox
    /\ UNCHANGED <<sub, active_message_descriptor, received>>
    /\ UNCHANGED <<file_descriptor, publishers, subscribers, handles, resp, fabric, mutex>>

\* put, with a subscriber whose channel holds bound samples: the sample
\* reaches the subscriber unless the transport fails.  The send awaits the
\* put before it returns, and the channel is first in, first out: the
\* sample queues up behind the earlier ones.  While the channel is full the
\* sample is not queued: the transport holds it back until there is room,
\* or discards it, which leaves every variable as it is.
PutWithin(frame, zenoh_ok, bound) ==
    /\ Len(inbox) < bound
    /\ inbox' = IF zenoh_ok THEN Append(inbox, frame) ELSE inbox
    /\ UNCHANGED <<sub, active_message_descriptor, received>>
    /\ UNCHANGED <<file_descriptor, publishers, subscribers, handles, resp, fabric, mutex>>

\* put in the specifications that vary the frames: they follow the queue up
\* to MaxInbox samples
Put(frame, zenoh_ok) == PutWithin(frame, zenoh_ok, MaxInbox)

\* what Publisher::send returns: put(buf).await? is its only failure
PublisherSendResult(zenoh_ok) ==
    IF zenoh_ok THEN OpResult("send", "Ok", <<>>, FALSE)
    ELSE OpResult("send", "Zenoh", <<>>, FALSE)

PublisherSend(M, message, now, zenoh_ok) ==
    Put(Frame(PublisherFrame(M, message, now), "typed",
              Header(now, type_url(M)), message), zenoh_ok)

\* serde_json::Value of the form {"data": v}
Json(kind, v) == [kind |-> kind, v |-> v]
JsonValues == {Json("string", <<104, 105>>), Json("number", <<5>>)}

\* DynamicMessage::deserialize(descriptor, json)
Deserialize(desc, json) ==
    IF (desc.schema = "string" /\ json.kind = "string")
       \/ (desc.schema = "int" /\ json.kind = "number")
    THEN [ok |-> TRUE, val |-> Msg(desc.schema, json.v)]
    ELSE [ok |-> FALSE, val |-> NoMsg]

\* An UntypedPublisher: the type URL it was given and the descriptor it
\* resolved when it was created.
UntypedPublisher(url, message_descriptor) ==
    [type_url |-> url, message_descriptor |-> message_descriptor]
SenderUrls == {MkUrl(AuthG, NameS), MkUrl(AuthH, NameS), MkUrl(AuthG, NameN)}
UntypedPublishers ==
    {UntypedPublisher(u, search_file_descriptors(pools, u).val) :
        <<pools, u>> \in {pu \in PoolChoices \X SenderUrls :
                            search_file_descriptors(pu[1], pu[2]).ok}}

\* (mutant) the header's type URL is made from the name of the message that
\* is sent
UntypedPublisherFrame_UrlFromMessage(p, dyn_message, now) ==
    encode_length_delimited(EncodeHeader(Header(now, MkUrl(AuthG, p.message_descriptor.name))))
        \o encode_length_delimited(EncodeMsg(dyn_message))

\* UntypedPublisher::send: the buffer handed to put
UntypedPublisherFrame(p, dyn_message, now) ==
    encode_length_delimited(EncodeHeader(Header(now, p.type_url)))
        \o encode_length_delimited(EncodeMsg(dyn_message))

\* what UntypedPublisher::send returns: the `?` after deserialize comes
\* first, the one after put second
UntypedPublisherSendResult(p, json, zenoh_ok) ==
    IF ~Deserialize(p.message_descriptor, json).ok
    THEN OpResult("send", "SerdeJsonError", <<>>, FALSE)
    ELSE PublisherSendResult(zenoh_ok)

\* (mutant) a value the descriptor rejects is sent as the default message
UntypedPublisherSend_DefaultOnReject(p, json, now, zenoh_ok) ==
    LET dyn_message == Deserialize(p.message_descriptor, json)
        sent == IF dyn_message.ok THEN dyn_message.val
                ELSE Msg(p.message_descriptor.schema, DefaultData(p.message_descriptor.schema))
    IN  Put(Frame(UntypedPublisherFrame(p, sent, now), "untyped",
                  Header(now, p.type_url), sent), zenoh_ok)

\* UntypedPublisher::send: the `?` after deserialize leaves before the
\* buffer is built, so nothing is put
UntypedPublisherSend(p, json, now, zenoh_ok) ==
    LET dyn_message == Deserialize(p.message_descriptor, json) IN
    IF ~dyn_message.ok
    THEN Put(NoFrame, FALSE)
    ELSE Put(Frame(UntypedPublisherFrame(p, dyn_message.val, now), "untyped",
                   Header(now, p.type_url), dyn_message.val), zenoh_ok)

\* Samples put on the key by something else than this library's send: a
\* frame cut short, a header that is not a Header, no payload, a payload
\* length that exceeds what follows, a payload that is not the message, a
\* header whose type URL has no '/', a header whose type URL names a message
\* that no pool defines.
HeaderS == encode_length_delimited(EncodeHeader(Header(Timestamp(1, 7), MkUrl(AuthG, NameS))))
PayloadHi == encode_length_delimited(EncodeMsg(Msg("string", <<104, 105>>)))
RawFrames ==
    { Take(HeaderS, 2),
      encode_length_delimited(<<18, 5, 103>>),
      HeaderS,
      HeaderS \o <<5, 10>>,
      HeaderS \o encode_length_delimited(<<8, 1>>),
      encode_length_delimited(EncodeHeader(Header(Timestamp(1, 7), AuthG \o NameS))) \o PayloadHi,
      encode_length_delimited(EncodeHeader(Header(Timestamp(1, 7), MkUrl(AuthG, NameX)))) \o PayloadHi }

ForeignPut(bytes) == Put(Frame(bytes, "raw", DefaultHeader, NoMsg), TRUE)

TypeUrlMatches_NameOnly(header, M) ==
    message_name_from_type_url(header.type_url) = Ok(M.name)

\* header.type_url == M::type_url()
TypeUrlMatches(header, M) == header.type_url = type_url(M)

\* Subscriber<M>::recv on a sample's bytes
SubscriberRecvResult(M, bytes) ==
    Only({
    IF ~header.ok THEN RecvErr("ProtobufDecode", <<>>, <<>>, <<>>)
    ELSE IF TypeUrlMatches(header.val, M)
    THEN Only({IF ~message.ok THEN RecvErr("ProtobufDecode", <<>>, <<>>, <<>>)
               ELSE Only({RecvOk(header.val, message.val, Take(len.rest, len.val), NoDesc)
                          : len \in {decode_varint(header.rest)}})
               : message \in {decode_length_delimited(M.schema, header.rest)}})
    ELSE RecvErr("MismatchedSubscriberType", type_url(M), header.val.type_url, <<>>)
    : header \in {decode_length_delimited("header", bytes)}})

\* what recv leaves behind in every case: the sample is taken, the result
\* is the caller's
Took(result) ==
    /\ inbox' = Tail(inbox)
    /\ received' = [result |-> result, sender |-> Head(inbox).by]
    /\ UNCHANGED sub
    /\ UNCHANGED <<file_descriptor, publishers, subscribers, handles, resp, fabric, mutex>>

SubscriberRecv ==
    /\ sub.live /\ sub.typed
    /\ inbox # <<>>
    /\ \E result \in {SubscriberRecvResult(sub.M, Head(inbox).bytes)} : Took(result)
    /\ UNCHANGED active_message_descriptor

\* (mutant) the whole type URL is compared, as the typed subscriber does: a
\* URL of another authority than the generated types' is not resolved
get_message_descriptor_WholeUrl(cache, pools, url) ==
    IF cache.some /\ cache.type_url = url
    THEN [res |-> Ok(cache.desc), cache |-> cache]
    ELSE Only({IF found.ok /\ url = MkUrl(AuthG, found.val.name)
               THEN [res |-> found, cache |-> Some(url, found.val)]
               ELSE [res |-> Err("InvalidTypeUrl", url), cache |-> NoCache]
               : found \in {search_file_descriptors(pools, url)}})

\* (mutant) a resolution that fails leaves the cache as it was
get_message_descriptor_KeepOnError(cache, pools, url) ==
    IF cache.some /\ cache.type_url = url
    THEN [res |-> Ok(cache.desc), cache |-> cache]
    ELSE Only({IF found.ok
               THEN [res |-> found, cache |-> Some(url, found.val)]
               ELSE [res |-> found, cache |-> cache]
               : found \in {search_file_descriptors(pools, url)}})

\* (mutant) on a miss the descriptor that was found is returned, and an
\* entry that the cache holds stays in it
get_message_descriptor_NoReplace(cache, pools, url) ==
    IF cache.some /\ cache.type_url = url
    THEN [res |-> Ok(cache.desc), cache |-> cache]
    ELSE Only({IF found.ok
               THEN [res |-> found,
                     cache |-> IF cache.some THEN cache ELSE Some(url, found.val)]
               ELSE [res |-> found, cache |-> NoCache]
               : found \in {search_file_descriptors(pools, url)}})

get_message_descriptor_KeepActive(cache, pools, url) ==
    IF cache.some
    THEN [res |-> Ok(cache.desc), cache |-> cache]
    ELSE Only({IF found.ok
               THEN [res |-> found, cache |-> Some(url, found.val)]
               ELSE [res |-> found, cache |-> NoCache]
               : found \in {search_file_descriptors(pools, url)}})

\* UntypedSubscriber::get_message_descriptor: the descriptor or the error,
\* and the cache as the call leaves it (take() empties it before the `?`)
get_message_descriptor(cache, pools, url) ==
    IF cache.some /\ cache.type_url = url
    THEN [res |-> Ok(cache.desc), cache |-> cache]
    ELSE Only({IF found.ok
               THEN [res |-> found, cache |-> Some(url, found.val)]
               ELSE [res |-> found, cache |-> NoCache]
               : found \in {search_file_descriptors(pools, url)}})

UntypedPayload_KeepPrefix(byte_ref) ==
    Only({IF ~len.ok THEN [res |-> "ProtobufDecode", slice |-> <<>>]
          ELSE IF len.val > Len(byte_ref) THEN [res |-> "Panic", slice |-> <<>>]
          ELSE [res |-> "Ok", slice |-> Take(byte_ref, len.val)]
          : len \in {decode_varint(byte_ref)}})

\* decode_varint(&mut byte_ref) and &byte_ref[..len]: the slice handed to
\* DynamicMessage::decode.  Slicing past the end of the buffer panics.
UntypedPayload(byte_ref) ==
    Only({IF ~len.ok THEN [res |-> "ProtobufDecode", slice |-> <<>>]
          ELSE IF len.val > Len(len.rest) THEN [res |-> "Panic", slice |-> <<>>]
          ELSE [res |-> "Ok", slice |-> Take(len.rest, len.val)]
          : len \in {decode_varint(byte_ref)}})

\* UntypedSubscriber::recv on a sample's bytes: its result and the cache
UntypedSubscriberRecvResult(cache, pools, bytes) ==
    Only({
    IF ~header.ok
    THEN [result |-> RecvErr("ProtobufDecode", <<>>, <<>>, <<>>), cache |-> cache]
    ELSE Only({
         IF ~md.res.ok
         THEN [result |-> RecvErr(md.res.err, <<>>, <<>>, md.res.arg), cache |-> md.cache]
         ELSE Only({
              IF payload.res # "Ok"
              THEN [result |-> [RecvErr(payload.res, <<>>, <<>>, <<>>) EXCEPT !.desc = md.res.val],
                    cache |-> md.cache]
              ELSE Only({
                   IF message.ok
                   THEN [result |-> RecvOk(header.val, message.val, payload.slice, md.res.val),
                         cache |-> md.cache]
                   ELSE [result |-> [RecvErr("ProtobufDecode", <<>>, <<>>, <<>>)
                                       EXCEPT !.desc = md.res.val],
                         cache |-> md.cache]
                   : message \in {DecodeMsg(md.res.val.schema, payload.slice)}})
              : payload \in {UntypedPayload(header.rest)}})
         : md \in {get_message_descriptor(cache, pools, header.val.type_url)}})
    : header \in {decode_length_delimited("header", bytes)}})

\* (mutant) the type URL is resolved in the descriptor list the node holds
\* when the frame is taken
UntypedSubscriberRecv_NodePools ==
    /\ sub.live /\ ~sub.typed
    /\ inbox # <<>>
    /\ \E r \in {UntypedSubscriberRecvResult(active_message_descriptor,
                                             parse_file_descriptors(file_descriptor).val,
                                             Head(inbox).bytes)} :
          /\ Took(r.result)
          /\ active_message_descriptor' = r.cache

UntypedSubscriberRecv ==
    /\ sub.live /\ ~sub.typed
    /\ inbox # <<>>
    /\ \E r \in {UntypedSubscriberRecvResult(active_message_descriptor,
                                             sub.file_descriptor_pools, Head(inbox).bytes)} :
          /\ Took(r.result)
          /\ active_message_descriptor' = r.cache

\* A node with one subscriber on a topic: a Subscriber<M>, or an
\* UntypedSubscriber holding the pools parsed from the node's descriptors.
InitWire ==
    /\ file_descriptor \in PoolChoices
    /\ publishers = {}
    /\ subscribers = {"t1"}
    /\ handles = [h \in HandleIds |-> IF h = 1 THEN Handle(TRUE, "sub", "t1") ELSE NoHandle]
    /\ lastResult = OpResult("new", "Ok", <<>>, FALSE)
    /\ resp = [k \in Kinds |-> RespIdle]
    /\ sub \in {Subscriber(M) : M \in MessageTypes}
               \cup {UntypedSubscriber(parse_file_descriptors(file_descriptor).val)}
    /\ inbox = <<>>
    /\ active_message_descriptor = NoCache
    /\ received = NoReceived
    /\ fabric = Fabric(<<>>)
    /\ mutex = Unlocked

NextWire ==
    \/ \E M \in MessageTypes : \E message \in Messages(M) : \E now \in Clock :
          \E zenoh_ok \in BOOLEAN :
             PublisherSend(M, message, now, zenoh_ok) /\ UNCHANGED lastResult
    \/ \E p \in UntypedPublishers : \E json \in JsonValues : \E now \in Clock :
          \E zenoh_ok \in BOOLEAN :
             UntypedPublisherSend(p, json, now, zenoh_ok) /\ UNCHANGED lastResult
    \/ \E bytes \in RawFrames : ForeignPut(bytes) /\ UNCHANGED lastResult
    \/ SubscriberRecv /\ UNCHANGED lastResult
    \/ UntypedSubscriberRecv /\ UNCHANGED lastResult

SpecWire == InitWire /\ [][NextWire]_vars

(***************************************************************************)
(* SpecPools: untyped publishers of any node send on the topic, and the    *)
(* node of the subscriber adds descriptor sets to its list, subscribes     *)
(* again and receives.                                                     *)
(***************************************************************************)
\* Node::subscribe_untyped on the topic: on Ok the program holds a new
\* UntypedSubscriber, with the pools parsed from the node's list as it is
\* now, an empty cache and a channel of its own, and receives on it from
\* now on (the subscriber it had stays alive)
subscribe_untyped(topic, zenoh_ok) ==
    /\ UntypedSubscriberNew(topic, zenoh_ok)
    /\ lastResult' = UntypedSubscriberNewResult(topic, zenoh_ok)
    /\ IF UntypedSubscriberNewResult(topic, zenoh_ok).res = "Ok"
       THEN /\ sub' = UntypedSubscriber(parse_file_descriptors(file_descriptor).val)
            /\ inbox' = <<>>
            /\ active_message_descriptor' = NoCache
       ELSE UNCHANGED <<sub, inbox, active_message_descriptor>>
    /\ UNCHANGED <<received, fabric, mutex>>

NextPools ==
    \/ \E p \in UntypedPublishers : \E json \in JsonValues : \E now \in Clock :
          \E zenoh_ok \in BOOLEAN :
             UntypedPublisherSend(p, json, now, zenoh_ok) /\ UNCHANGED lastResult
    \/ UntypedSubscriberRecv /\ UNCHANGED lastResult
    \/ \E b \in UserBlobs : add_file_descriptors(b) /\ UNCHANGED <<lastResult, wire>>
    \/ \E z \in BOOLEAN : subscribe_untyped("t1", z)

SpecPools == InitWire /\ [][NextPools]_vars

(***************************************************************************)
(* SpecSend: the send calls of the publishers on the topic and what they   *)
(* return, with the subscriber of SpecWire at the other end.  lastResult   *)
(* is the last call: a send with the type URL of the publisher it was      *)
(* called on, or a recv.                                                   *)
(***************************************************************************)
NextSend ==
    \/ \E M \in MessageTypes : \E message \in Messages(M) : \E now \in Clock :
          \E zenoh_ok \in BOOLEAN :
             /\ PublisherSend(M, message, now, zenoh_ok)
             /\ lastResult' = Called(PublisherSendResult(zenoh_ok), type_url(M))
    \/ \E p \in UntypedPublishers : \E json \in JsonValues : \E now \in Clock :
          \E zenoh_ok \in BOOLEAN :
             /\ UntypedPublisherSend(p, json, now, zenoh_ok)
             /\ lastResult' = Called(UntypedPublisherSendResult(p, json, zenoh_ok), p.type_url)
    \/ SubscriberRecv /\ lastResult' = OpResult("recv", received'.result.res, <<>>, FALSE)
    \/ UntypedSubscriberRecv /\ lastResult' = OpResult("recv", received'.result.res, <<>>, FALSE)

SpecSend == InitWire /\ [][NextSend]_vars

(***************************************************************************)
(* SpecQueue: the subscriber's channel at its real capacity.  One          *)
(* publisher of StringMessage sends one message over and over, so that the *)
(* queue can fill up, and the subscriber receives.                         *)
(***************************************************************************)
NextQueue ==
    \/ \E now \in Clock :
          /\ PutWithin(Frame(PublisherFrame(StringMessage, Msg("string", <<104, 105>>), now),
                             "typed", Header(now, type_url(StringMessage)),
                             Msg("string", <<104, 105>>)),
                       TRUE, flume_bounded)
          /\ UNCHANGED lastResult
    \/ SubscriberRecv /\ UNCHANGED lastResult
    \/ UntypedSubscriberRecv /\ UNCHANGED lastResult

SpecQueue == InitWire /\ [][NextQueue]_vars

(***************************************************************************)
(* SpecFabric: discovery.  Two nodes are on the fabric; each runs its      *)
(* three responder tasks.  A caller issues list_nodes,                     *)
(* list_nodes_publishers(name) and list_nodes_subscribers(name).  The      *)
(* transport hands a query to the queryables declared on its key, and      *)
(* closes the reply channel when every responder that was handed the query *)
(* has let go of it.  Keys match when they are equal.  The second node is  *)
(* the one whose session closes, the first call the one that is delivered  *)
(* an error reply.                                                         *)
(***************************************************************************)
\* The nodes: alpha with a publisher on t1 and a subscriber on t2, together
\* with beta without handles, or beta with two publishers and a
\* subscriber, or a second node called alpha.
InitFabric ==
    /\ file_descriptor = <<DESCRIPTOR_SET_BYTES>>
    /\ publishers = {}
    /\ subscribers = {}
    /\ handles = [h \in HandleIds |-> NoHandle]
    /\ lastResult = OpResult("new", "Ok", <<>>, FALSE)
    /\ resp = [k \in Kinds |-> RespIdle]
    /\ sub = NoSub
    /\ inbox = <<>>
    /\ active_message_descriptor = NoCache
    /\ received = NoReceived
    /\ mutex = Unlocked
    /\ \E alpha \in {FabricNode(<<97>>, {<<116, 49>>}, {<<116, 50>>})} :
          fabric \in { Fabric(<<alpha, FabricNode(<<98>>, {}, {})>>),
                       Fabric(<<alpha, FabricNode(<<98>>, {<<116, 49>>, <<116, 50>>},
                                                  {<<116, 49>>})>>),
                       Fabric(<<alpha, FabricNode(<<97>>, {<<116, 50>>}, {})>>) }

FabricStep ==
    UNCHANGED <<file_descriptor, publishers, subscribers, handles, lastResult, resp,
                sub, inbox, active_message_descriptor, received, mutex>>

\* the queryable a call queries
QueryableOf(op) ==
    IF op = "list_nodes" THEN "node_names"
    ELSE IF op = "list_nodes_publishers" THEN "publishers" ELSE "subscribers"

\* session.get(key)...await?: the query reaches the queryables declared on
\* robotica/node_names, or on robotica/node/{node_name}/publishers or
\* /subscribers, whose task is running
Get(q, op, node_name, zenoh_ok) ==
    /\ fabric.get[q].status = "idle"
    /\ op = "list_nodes" => node_name = <<>>
    /\ op # "list_nodes" => node_name # <<>>
    /\ \E asked \in {IF zenoh_ok
                     THEN {n \in DOMAIN fabric.node :
                             /\ fabric.resp[n][QueryableOf(op)].status = "running"
                             /\ op # "list_nodes" => fabric.node[n].node_name = node_name}
                     ELSE {}} :
          fabric' =
            [fabric EXCEPT
               !.get[q] = [NoGet EXCEPT !.op = op, !.arg = node_name,
                                        !.status = IF zenoh_ok THEN "open" ELSE "Zenoh",
                                        !.open = asked, !.asked = asked],
               !.resp = [n \in DOMAIN fabric.node |->
                           IF n \in asked
                           THEN [@[n] EXCEPT ![QueryableOf(op)].queue = Append(@, q)]
                           ELSE @[n]]]
    /\ FabricStep

\* (mutant) the list is built from both sets
Snapshot_BothSets(node, k) == node.publishers \cup node.subscribers

\* pubsub_data.lock().await and the set the list is built from
Snapshot(node, k) == IF k = "publishers" THEN node.publishers ELSE node.subscribers

\* queryable.recv_async().await? returns the oldest query, and the reply is
\* built: the node's name, or the list made by iterating over the set (a
\* HashSet: in some order) and encoded length-delimited
ResponderRecv(n, k, list) ==
    /\ fabric.resp[n][k].status = "running"
    /\ fabric.resp[n][k].query = "none"
    /\ fabric.resp[n][k].queue # <<>>
    /\ IF k = "node_names" THEN list = <<>>
       ELSE /\ Len(list) = Cardinality(Snapshot(fabric.node[n], k))
            /\ {list[i] : i \in 1 .. Len(list)} = Snapshot(fabric.node[n], k)
    /\ fabric' = [fabric EXCEPT
                    !.resp[n][k].query = Head(fabric.resp[n][k].queue),
                    !.resp[n][k].queue = Tail(@),
                    !.resp[n][k].msg =
                       IF k = "node_names" THEN fabric.node[n].node_name
                       ELSE encode_length_delimited(EncodeList(list))]
    /\ FabricStep

\* (mutant) a failed reply is dropped and the loop goes on
ResponderReply_CarriesOn(n, k, zenoh_ok) ==
    /\ fabric.resp[n][k].status = "running"
    /\ fabric.resp[n][k].query # "none"
    /\ \E q \in {fabric.resp[n][k].query} :
          fabric' = [fabric EXCEPT
                       !.resp[n][k].query = "none",
                       !.resp[n][k].msg = <<>>,
                       !.get[q].open = @ \ {n},
                       !.get[q].replied = IF zenoh_ok THEN @ \cup {n} ELSE @,
                       !.get[q].replies =
                          IF zenoh_ok /\ fabric.get[q].status = "open"
                          THEN Append(@, Reply(TRUE, fabric.resp[n][k].msg)) ELSE @]
    /\ FabricStep

\* query.reply(key, msg).await?: the reply goes out and the loop starts
\* over; or the reply fails, the function returns the error and the task
\* panics ("Error in node queryable"): it gives up the query it holds and
\* the ones in its queryable's channel.  A reply to a call that has
\* returned is received by nobody.
ResponderReply(n, k, zenoh_ok) ==
    /\ fabric.resp[n][k].status = "running"
    /\ fabric.resp[n][k].query # "none"
    /\ \E q \in {fabric.resp[n][k].query} :
          IF zenoh_ok
          THEN fabric' = [fabric EXCEPT
                            !.resp[n][k].query = "none",
                            !.resp[n][k].msg = <<>>,
                            !.get[q].open = @ \ {n},
                            !.get[q].replied = @ \cup {n},
                            !.get[q].replies =
                               IF fabric.get[q].status = "open"
                               THEN Append(@, Reply(TRUE, fabric.resp[n][k].msg)) ELSE @]
          ELSE fabric' = [fabric EXCEPT
                            !.resp[n][k] = [Responder EXCEPT !.status = "panicked"],
                            !.get = [g \in QueryIds |->
                                       IF g = q \/ \E i \in 1 .. Len(fabric.resp[n][k].queue) :
                                                      fabric.resp[n][k].queue[i] = g
                                       THEN [@[g] EXCEPT !.open = @ \ {n}]
                                       ELSE @[g]]]
    /\ FabricStep

\* queryable.recv_async().await? reports that the channel is disconnected:
\* the function returns Error::Flume(Disconnected) and the task ends
\* without a panic
ResponderDisconnect(n, k) ==
    /\ fabric.resp[n][k].status = "running"
    /\ fabric.resp[n][k].query = "none"
    /\ fabric.resp[n][k].queue = <<>>
    /\ fabric' = [fabric EXCEPT !.resp[n][k].status = "stopped"]
    /\ FabricStep

\* (mutant) list_nodes keeps the name of the latest reply only
GetRecv_LatestOnly(q) ==
    /\ fabric.get[q].status = "open"
    /\ fabric.get[q].replies # <<>> \/ fabric.get[q].open = {}
    /\ fabric.get[q].op = "list_nodes"
    /\ fabric' =
         IF fabric.get[q].replies # <<>>
         THEN IF ~Head(fabric.get[q].replies).ok
              THEN [fabric EXCEPT !.get[q].status = "ZenohQueryReply",
                                  !.get[q].names = {}, !.get[q].replies = <<>>,
                                  !.get[q].taken = @ + 1]
              ELSE [fabric EXCEPT
                      !.get[q].names = {from_utf8_lossy(Head(fabric.get[q].replies).payload)},
                      !.get[q].replies = Tail(@), !.get[q].taken = @ + 1]
         ELSE [fabric EXCEPT !.get[q].status = "Ok"]
    /\ FabricStep

\* (mutant) list_nodes_publishers / list_nodes_subscribers collect the
\* lists of all replies until the channel is closed, as list_nodes does
GetRecv_MergesReplies(q) ==
    /\ fabric.get[q].status = "open"
    /\ fabric.get[q].replies # <<>> \/ fabric.get[q].open = {}
    /\ fabric' =
         IF fabric.get[q].replies = <<>>
         THEN [fabric EXCEPT
                 !.get[q].status = IF fabric.get[q].op = "list_nodes" \/ fabric.get[q].taken > 0
                                   THEN "Ok" ELSE "Flume"]
         ELSE IF ~Head(fabric.get[q].replies).ok
         THEN [fabric EXCEPT !.get[q].status = "ZenohQueryReply",
                             !.get[q].names = {}, !.get[q].replies = <<>>,
                             !.get[q].taken = @ + 1]
         ELSE IF fabric.get[q].op = "list_nodes"
         THEN [fabric EXCEPT
                 !.get[q].names = @ \cup {from_utf8_lossy(Head(fabric.get[q].replies).payload)},
                 !.get[q].replies = Tail(@), !.get[q].taken = @ + 1]
         ELSE Only({[fabric EXCEPT
                       !.get[q].status = IF proto.ok THEN "open" ELSE "ProtobufDecode",
                       !.get[q].infos = IF proto.ok THEN @ \o proto.val ELSE <<>>,
                       !.get[q].replies = Tail(@), !.get[q].taken = @ + 1]
                    : proto \in {decode_length_delimited("list",
                                                         Head(fabric.get[q].replies).payload)}})
    /\ FabricStep

\* (mutant) a channel closed without a reply gives the empty list
GetRecv_EmptyOnClose(q) ==
    /\ fabric.get[q].status = "open"
    /\ fabric.get[q].replies # <<>> \/ fabric.get[q].open = {}
    /\ fabric' =
         IF fabric.get[q].replies = <<>>
         THEN [fabric EXCEPT !.get[q].status = "Ok"]
         ELSE IF ~Head(fabric.get[q].replies).ok
         THEN [fabric EXCEPT !.get[q].status = "ZenohQueryReply",
                             !.get[q].names = {}, !.get[q].replies = <<>>,
                             !.get[q].taken = @ + 1]
         ELSE IF fabric.get[q].op = "list_nodes"
         THEN [fabric EXCEPT
                 !.get[q].names = @ \cup {from_utf8_lossy(Head(fabric.get[q].replies).payload)},
                 !.get[q].replies = Tail(@), !.get[q].taken = @ + 1]
         ELSE Only({[fabric EXCEPT
                       !.get[q].status = IF proto.ok THEN "Ok" ELSE "ProtobufDecode",
                       !.get[q].infos = IF proto.ok THEN proto.val ELSE <<>>,
                       !.get[q].replies = <<>>, !.get[q].taken = @ + 1]
                    : proto \in {decode_length_delimited("list",
                                                         Head(fabric.get[q].replies).payload)}})
    /\ FabricStep

\* (mutant) a reply that is an error is passed over and the call goes on
GetRecv_SkipsErrors(q) ==
    /\ fabric.get[q].status = "open"
    /\ fabric.get[q].replies # <<>> \/ fabric.get[q].open = {}
    /\ fabric' =
         IF fabric.get[q].replies = <<>>
         THEN [fabric EXCEPT
                 !.get[q].status = IF fabric.get[q].op = "list_nodes" THEN "Ok" ELSE "Flume"]
         ELSE IF ~Head(fabric.get[q].replies).ok
         THEN [fabric EXCEPT !.get[q].replies = Tail(@), !.get[q].taken = @ + 1]
         ELSE IF fabric.get[q].op = "list_nodes"
         THEN [fabric EXCEPT
                 !.get[q].names = @ \cup {from_utf8_lossy(Head(fabric.get[q].replies).payload)},
                 !.get[q].replies = Tail(@), !.get[q].taken = @ + 1]
         ELSE Only({[fabric EXCEPT
                       !.get[q].status = IF proto.ok THEN "Ok" ELSE "ProtobufDecode",
                       !.get[q].infos = IF proto.ok THEN proto.val ELSE <<>>,
                       !.get[q].replies = <<>>, !.get[q].taken = @ + 1]
                    : proto \in {decode_length_delimited("list",
                                                         Head(fabric.get[q].replies).payload)}})
    /\ FabricStep

\* recv.recv_async().await on the reply channel, and msg.result()?.
\* list_nodes inserts the name of each reply into its set until the channel
\* is closed, and returns the set.  list_nodes_publishers /
\* list_nodes_subscribers decode the first reply and return its list; a
\* channel closed without a reply is Error::Flume.  A reply that is an
\* error makes the call return Error::ZenohQueryReply: the set collected
\* so far and the channel with what it still holds are dropped.
GetRecv(q) ==
    /\ fabric.get[q].status = "open"
    /\ fabric.get[q].replies # <<>> \/ fabric.get[q].open = {}
    /\ fabric' =
         IF fabric.get[q].replies = <<>>
         THEN [fabric EXCEPT
                 !.get[q].status = IF fabric.get[q].op = "list_nodes" THEN "Ok" ELSE "Flume"]
         ELSE IF ~Head(fabric.get[q].replies).ok
         THEN [fabric EXCEPT !.get[q].status = "ZenohQueryReply",
                             !.get[q].names = {}, !.get[q].replies = <<>>,
                             !.get[q].taken = @ + 1]
         ELSE IF fabric.get[q].op = "list_nodes"
         THEN [fabric EXCEPT
                 !.get[q].names = @ \cup {from_utf8_lossy(Head(fabric.get[q].replies).payload)},
                 !.get[q].replies = Tail(@), !.get[q].taken = @ + 1]
         ELSE Only({[fabric EXCEPT
                       !.get[q].status = IF proto.ok THEN "Ok" ELSE "ProtobufDecode",
                       !.get[q].infos = IF proto.ok THEN proto.val ELSE <<>>,
                       !.get[q].replies = <<>>, !.get[q].taken = @ + 1]
                    : proto \in {decode_length_delimited("list",
                                                         Head(fabric.get[q].replies).payload)}})
    /\ FabricStep

\* The caller's session delivers a reply that is an error (the reply of a
\* queryable that answers with reply_err, or the session's own report that
\* the query failed) to a call that is waiting for replies.
ErrorReply(q) ==
    /\ fabric.get[q].status = "open"
    /\ \A i \in 1 .. Len(fabric.get[q].replies) : fabric.get[q].replies[i].ok
    /\ fabric' = [fabric EXCEPT !.get[q].replies = Append(@, Reply(FALSE, <<>>))]
    /\ FabricStep

NextFabric ==
    \/ \E q \in QueryIds, zenoh_ok \in BOOLEAN : Get(q, "list_nodes", <<>>, zenoh_ok)
    \* the names asked for: alpha, beta, and a name no node has
    \/ \E q \in QueryIds, node_name \in {<<97>>, <<98>>, <<99>>}, zenoh_ok \in BOOLEAN :
          \E op \in {"list_nodes_publishers", "list_nodes_subscribers"} :
             Get(q, op, node_name, zenoh_ok)
    \/ \E n \in DOMAIN fabric.node, k \in Queryables :
          \E list \in {<<>>} \cup UNION {[1 .. m -> {<<116, 49>>, <<116, 50>>}] : m \in 1 .. 2} :
             ResponderRecv(n, k, list)
    \/ \E n \in DOMAIN fabric.node, k \in Queryables, zenoh_ok \in BOOLEAN :
          ResponderReply(n, k, zenoh_ok)
    \/ \E n \in {Len(fabric.node)}, k \in Queryables : ResponderDisconnect(n, k)
    \/ \E q \in QueryIds : GetRecv(q)
    \/ \E q \in {"q1"} : ErrorReply(q)

SpecFabric == InitFabric /\ [][NextFabric]_vars

(***************************************************************************)
(* SpecLock: the registry mutex, one guarded section at a time.  A         *)
(* creation call, a destructor and the two responders run concurrently.    *)
(* lock().await and blocking_lock() queue the caller behind the earlier    *)
(* ones (tokio's Mutex hands the guard out first come, first served); the  *)
(* guard is a temporary, or a local of a block without an await in it,     *)
(* and is released where the statement or the block ends.                  *)
(***************************************************************************)
\* pubsub_data.lock().await / blocking_lock(): the task waits for the guard
lock(task) == [mutex EXCEPT !.waiters = Append(@, task)]

\* the guard is dropped
unlock == [mutex EXCEPT !.holder = "none"]

\* the mutex hands the guard to the task that has waited longest
Acquire(task) ==
    /\ mutex.holder = "none"
    /\ mutex.waiters # <<>>
    /\ Head(mutex.waiters) = task
    /\ mutex' = [mutex EXCEPT !.holder = task, !.waiters = Tail(@)]
    /\ UNCHANGED <<file_descriptor, publishers, subscribers, handles, lastResult, resp,
                   sub, inbox, active_message_descriptor, received, fabric>>

\* new_from_session up to the lock: declare_publisher / declare_subscriber
\* is awaited; on its error the call returns, else it goes for the lock
CreateDeclare(kind, topic, zenoh_ok) ==
    /\ mutex.call["create"].pc = "idle"
    /\ Free # {}
    /\ \E op \in {IF kind = "pub" THEN "publish" ELSE "subscribe"} :
          IF zenoh_ok
          THEN /\ mutex' = [lock("create") EXCEPT
                              !.call["create"] = Call("lock", kind, topic, 0)]
               /\ UNCHANGED lastResult
          ELSE /\ lastResult' = DeclareResult(op, FALSE)
               /\ UNCHANGED mutex
    /\ UNCHANGED <<file_descriptor, publishers, subscribers, handles, resp,
                   sub, inbox, active_message_descriptor, received, fabric>>

\* new_from_session under the guard: the insert; the guard is dropped at
\* the end of the statement and the object is returned
CreateInsert ==
    /\ mutex.holder = "create"
    /\ \E c \in {mutex.call["create"]} :
       \E op \in {IF c.kind = "pub" THEN "publish" ELSE "subscribe"} :
          /\ Created(DeclareResult(op, TRUE), c.kind, c.topic)
          /\ lastResult' = DeclareResult(op, TRUE)
    /\ mutex' = [unlock EXCEPT !.call["create"] = Unlocked.call["create"]]
    /\ UNCHANGED <<sub, inbox, active_message_descriptor, received, fabric>>

\* Drop::drop up to the lock: blocking_lock() panics when the thread is
\* inside an asynchronous execution context, and waits for the guard
\* otherwise
DropBlockingLock(h, in_async) ==
    /\ mutex.call["drop"].pc = "idle"
    /\ handles[h].live
    /\ IF in_async
       THEN /\ DropHandle(h, TRUE)
            /\ lastResult' = DropResult(h, TRUE)
            /\ mutex' = [mutex EXCEPT !.call["drop"] =
                            Call("panicked", handles[h].kind, handles[h].topic, h)]
       ELSE /\ mutex' = [lock("drop") EXCEPT !.call["drop"] =
                            Call("lock", handles[h].kind, handles[h].topic, h)]
            /\ UNCHANGED <<file_descriptor, publishers, subscribers, handles,
                           lastResult, resp>>
    /\ UNCHANGED <<sub, inbox, active_message_descriptor, received, fabric>>

\* Drop::drop under the guard: the remove, and the warning; the guard is
\* dropped at the end of the condition
DropRemove ==
    /\ mutex.holder = "drop"
    /\ \E h \in {mutex.call["drop"].h} :
          /\ DropHandle(h, FALSE)
          /\ lastResult' = DropResult(h, FALSE)
    /\ mutex' = [unlock EXCEPT !.call["drop"] = Unlocked.call["drop"]]
    /\ UNCHANGED <<sub, inbox, active_message_descriptor, received, fabric>>

\* a responder receives a query and goes for the lock
RespRecvLock(k) ==
    /\ RespRecv(k, 0)
    /\ mutex' = lock(k)
    /\ UNCHANGED <<lastResult, sub, inbox, active_message_descriptor, received, fabric>>

\* a responder under the guard: the list is built; the guard is dropped at
\* the end of the block, before the reply
RespSnapshotUnlock(k) ==
    /\ mutex.holder = k
    /\ RespSnapshot(k)
    /\ mutex' = unlock
    /\ UNCHANGED <<lastResult, sub, inbox, active_message_descriptor, received, fabric>>

NextLock ==
    \/ \E task \in Tasks : Acquire(task)
    \/ \E k \in Kinds, t \in Topics, z \in BOOLEAN : CreateDeclare(k, t, z)
    \/ CreateInsert
    \/ \E h \in HandleIds, a \in BOOLEAN : DropBlockingLock(h, a)
    \/ DropRemove
    \/ \E k \in Kinds : RespRecvLock(k)
    \/ \E k \in Kinds : RespSnapshotUnlock(k)
    \/ \E k \in Kinds : RespReply(k) /\ UNCHANGED <<lastResult, wire>>

\* The runtime schedules every task that can run, a thread that holds the
\* guard runs on to the end of its statement, and the mutex hands the guard
\* on when it is free.
SpecLock ==
    /\ Init
    /\ [][NextLock]_vars
    /\ \A task \in Tasks : WF_vars(Acquire(task))
    /\ WF_vars(CreateInsert)
    /\ WF_vars(DropRemove)
    /\ \A k \in Kinds : WF_vars(RespSnapshotUnlock(k))

(***************************************************************************)
(* Properties of the registry (Spec).                                      *)
(***************************************************************************)
\* C1 Registry consistency: the publishers set holds the topics that have at
\* least one live publisher handle, and the subscribers set the topics that
\* have at least one live subscriber handle; stated here is the half of the
\* equation that several live handles on one topic put to the test (every
\* topic with a live handle is in its set); C3 states the other half.
C1_RegistryConsistency ==
    /\ LiveTopics("pub") \subseteq publishers
    /\ LiveTopics("sub") \subseteq subscribers

\* C2 Responder freshness: a handle that was live when a responder received
\* a query, and has not been destroyed since, has its topic in the list the
\* responder answers with.
C2_ResponderFreshness ==
    \A k \in Kinds :
        (resp[k].pc = "reply" /\ resp[k].watch # 0)
            => handles[resp[k].watch].topic \in resp[k].msg

\* C3 Deregistration on drop: once the last handle of a kind on a topic is
\* destroyed the registry no longer contains the topic: the registry never
\* keeps a topic for which no handle of that kind is live.
C3_DeregistrationOnDrop ==
    \A k \in Kinds : Registry(k) \subseteq LiveTopics(k)

(***************************************************************************)
(* Properties of the create calls (SpecCalls).                             *)
(***************************************************************************)
ResolutionErrors == {"ProtobufDescriptorRead", "InvalidTypeUrl"}

\* C10 publish_untyped resolves before it touches the transport: a call
\* that returns a descriptor-parse or type-URL error has declared no
\* transport publisher, created no object and left the publishers set as it
\* was.
C10_ResolveBeforeTransport ==
    [][(lastResult'.op = "publish_untyped" /\ lastResult'.res \in ResolutionErrors)
         => /\ ~lastResult'.declared
            /\ publishers' = publishers
            /\ handles' = handles]_vars

\* a failed publish_untyped on a node that has a publisher registered
C10_Witness ==
    /\ lastResult.op = "publish_untyped"
    /\ lastResult.res \in ResolutionErrors
    /\ ~lastResult.declared
    /\ publishers # {}

NoSlash(url) == SlashPositions(url) = {}
InNoPool(blobs, name) ==
    \A i \in 1 .. Len(blobs) : ~get_message_by_name(blobs[i], name).some
BadUrls == {AuthG \o NameS, MkUrl(AuthG, NameX)}

\* what the resolver's caller gets for this URL
Rejected(res, arg, pools, url) ==
    /\ NoSlash(url) => (res = "InvalidTypeUrl" /\ arg = url)
    /\ (~NoSlash(url) /\ InNoPool(pools, message_name_from_type_url(url).val))
         => (res = "InvalidTypeUrl" /\ arg = message_name_from_type_url(url).val)

\* an untyped subscriber's recv of a frame whose header carries the URL
RecvRejects ==
    \A pools \in PoolChoices :
       \A cache \in {NoCache, Some(MkUrl(AuthG, NameS), Desc("builtin", NameS, "string"))} :
          \A url \in BadUrls :
             LET bytes == encode_length_delimited(EncodeHeader(Header(Timestamp(1, 7), url)))
                             \o PayloadHi
                 r == UntypedSubscriberRecvResult(cache, pools, bytes)
             IN  /\ Rejected(r.result.res, r.result.arg, pools, url)
                 /\ r.cache = NoCache

\* C9 as stated: a type URL without '/' is rejected with InvalidTypeUrl
\* (carrying the URL), and one whose message name is in no pool with
\* InvalidTypeUrl carrying that name, by publish_untyped and by an untyped
\* subscriber's recv alike.
C9_InvalidTypeUrl ==
    /\ lastResult.op = "publish_untyped"
         => Rejected(lastResult.res, lastResult.arg, file_descriptor, lastResult.type_url)
    /\ RecvRejects

\* C9 amended: publish_untyped rejects such a type URL with InvalidTypeUrl
\* when the node's descriptor blobs all parse (when one does not, the call
\* fails with ProtobufDescriptorRead before it looks at the URL); an untyped
\* subscriber's recv, whose pools were parsed at creation, always does.
C9_InvalidTypeUrlWhenDescriptorsParse ==
    /\ (lastResult.op = "publish_untyped" /\ parse_file_descriptors(file_descriptor).ok)
         => Rejected(lastResult.res, lastResult.arg, file_descriptor, lastResult.type_url)
    /\ (lastResult.op = "publish_untyped" /\ lastResult.res = "Ok")
         => (~NoSlash(lastResult.type_url)
             /\ ~InNoPool(file_descriptor, message_name_from_type_url(lastResult.type_url).val))
    /\ RecvRejects

\* a publish_untyped with a type URL without '/' has failed on a node whose
\* descriptors parse
C9_Witness ==
    /\ lastResult.op = "publish_untyped"
    /\ lastResult.res = "InvalidTypeUrl"
    /\ lastResult.type_url = AuthG \o NameS
    /\ lastResult.arg = lastResult.type_url
    /\ file_descriptor = <<DESCRIPTOR_SET_BYTES, UserBlob>>

(***************************************************************************)
(* Properties of the subscriber (SpecWire).                                *)
(***************************************************************************)
\* a step in which a recv returned: its result is new, or a sample is gone
RecvReturned == received' # received \/ Len(inbox') < Len(inbox)

HeaderOf(frame) == decode_length_delimited("header", frame.bytes)

\* the frame was built by a send of this library
Sent(frame) == frame.by \in {"typed", "untyped"}

\* C4 Mismatch then recovery: a typed subscriber's recv of a frame whose
\* header type URL is not M's returns MismatchedSubscriberType with
\* expected = M's type URL and actual = the header's; the recv takes exactly
\* that frame; and the recv after a mismatch decodes a matching frame that
\* is next in the queue.
C4_MismatchThenRecovery ==
    [][(RecvReturned /\ sub.typed)
         => /\ inbox # <<>>
            /\ inbox' = Tail(inbox)
            /\ LET frame == Head(inbox)
                   header == HeaderOf(frame)
               IN  /\ (header.ok /\ header.val.type_url # type_url(sub.M))
                         => received'.result =
                              RecvErr("MismatchedSubscriberType", type_url(sub.M),
                                      header.val.type_url, <<>>)
                   /\ (/\ received.result.res = "MismatchedSubscriberType"
                       /\ Sent(frame)
                       /\ frame.header.type_url = type_url(sub.M))
                         => /\ received'.result.res = "Ok"
                            /\ received'.result.message = frame.msg]_vars

\* a mismatch on a frame of a foreign authority has been returned, and a
\* matching frame is next
C4_Witness ==
    /\ sub.typed
    /\ received.result.res = "MismatchedSubscriberType"
    /\ received.result.expected = MkUrl(AuthG, NameS)
    /\ received.result.actual = MkUrl(AuthH, NameS)
    /\ inbox # <<>>
    /\ Head(inbox).by = "typed"
    /\ Head(inbox).header.type_url = type_url(sub.M)

CacheFresh ==
    active_message_descriptor.some
        => search_file_descriptors(sub.file_descriptor_pools,
                                   active_message_descriptor.type_url)
             = Ok(active_message_descriptor.desc)

\* C5 One-slot cache: whenever the cache holds (u, d), d is what resolving u
\* in the subscriber's pools yields; and an untyped recv of a frame with a
\* readable header decodes with the descriptor that resolving the header's
\* type URL yields and leaves that pair in the cache, or returns the
\* resolution's error.
C5_CacheNeverStale ==
    [][/\ CacheFresh'
       /\ (RecvReturned /\ ~sub.typed /\ inbox # <<>> /\ HeaderOf(Head(inbox)).ok)
            => LET url == HeaderOf(Head(inbox)).val.type_url
                   found == search_file_descriptors(sub.file_descriptor_pools, url)
               IN  IF found.ok
                   THEN /\ received'.result.desc = found.val
                        /\ active_message_descriptor' = Some(url, found.val)
                   ELSE /\ received'.result.res = found.err
                        /\ received'.result.arg = found.arg]_vars

\* a frame was decoded with the cached descriptor, and the next frame in the
\* queue carries another type URL, which resolves to another descriptor
C5_Witness ==
    /\ ~sub.typed
    /\ received.result.res = "Ok"
    /\ active_message_descriptor = Some(MkUrl(AuthG, NameS), Desc("builtin", NameS, "string"))
    /\ received.result.desc = active_message_descriptor.desc
    /\ inbox # <<>>
    /\ Sent(Head(inbox))
    /\ Head(inbox).header.type_url = MkUrl(AuthG, NameN)
    /\ search_file_descriptors(sub.file_descriptor_pools, MkUrl(AuthG, NameN)).ok

\* C6 Framing round trip: the frame a typed publisher of M sends for m is
\* decoded by a typed subscriber of M into the header that was sent, whose
\* type_url is M's, and a message equal to m.
C6_FramingRoundTrip ==
    [][(/\ RecvReturned /\ sub.typed /\ inbox # <<>>
        /\ Head(inbox).by = "typed"
        /\ Head(inbox).header.type_url = type_url(sub.M))
         => /\ received'.result.res = "Ok"
            /\ received'.result.header = Head(inbox).header
            /\ received'.result.header.type_url = type_url(sub.M)
            /\ received'.result.message = Head(inbox).msg]_vars

\* a typed subscriber has decoded a typed publisher's message
C6_Witness ==
    /\ sub = Subscriber(StringMessage)
    /\ received.sender = "typed"
    /\ received.result.res = "Ok"
    /\ received.result.message = Msg("string", <<104, 105>>)
    /\ received.result.header = Header(Timestamp(1, 7), MkUrl(AuthG, NameS))

\* the descriptor the pools resolve the type URL to is M's
Contains(pools, M) ==
    LET found == search_file_descriptors(pools, type_url(M)) IN
    found.ok /\ found.val.schema = M.schema

\* C7 Untyped equivalence: an untyped subscriber whose pools contain M
\* decodes a typed publisher's frame to the header, the payload bytes and
\* the message that a typed subscriber of M decodes it to, the bytes handed
\* to the decoder being exactly the encoded payload; and a typed subscriber
\* of M decodes the frame of an untyped publisher created with M's type URL.
C7_UntypedEquivalence ==
    [][(RecvReturned /\ inbox # <<>> /\ Sent(Head(inbox)))
         => LET frame == Head(inbox) IN
            /\ (~sub.typed /\ frame.by = "typed")
                 => LET M == CHOOSE T \in MessageTypes : type_url(T) = frame.header.type_url
                        typed == SubscriberRecvResult(M, frame.bytes)
                    IN  Contains(sub.file_descriptor_pools, M)
                          => /\ typed.res = "Ok"
                             /\ received'.result.res = "Ok"
                             /\ received'.result.header = typed.header
                             /\ received'.result.slice = typed.slice
                             /\ received'.result.slice = EncodeMsg(frame.msg)
                             /\ received'.result.message = typed.message
            /\ (sub.typed /\ frame.by = "untyped"
                /\ frame.header.type_url = type_url(sub.M))
                 => /\ received'.result.res = "Ok"
                    /\ received'.result.header = frame.header
                    /\ received'.result.message = frame.msg]_vars

\* an untyped subscriber has decoded a typed publisher's frame from exactly
\* the payload bytes
C7_Witness ==
    /\ ~sub.typed
    /\ received.sender = "typed"
    /\ received.result.res = "Ok"
    /\ received.result.slice = <<10, 2, 104, 105>>
    /\ received.result.message = Msg("string", <<104, 105>>)

\* the frame ends inside the header, or the payload's length prefix is cut
\* short or says more than what follows
Truncated(bytes) ==
    LET header == decode_length_delimited("header", bytes) IN
    \/ ~header.ok
    \/ LET len == decode_varint(header.rest) IN ~len.ok \/ len.val > Len(len.rest)

\* the header, if it can be read, names a type the subscriber takes
Accepted(bytes) ==
    LET header == decode_length_delimited("header", bytes) IN
    header.ok =>
        IF sub.typed THEN TypeUrlMatches(header.val, sub.M)
        ELSE search_file_descriptors(sub.file_descriptor_pools, header.val.type_url).ok

\* C8 A truncated frame makes recv return ProtobufDecode, for typed and for
\* untyped subscribers alike, and the recv takes that frame only.
C8_TruncatedFrameIsDecodeError ==
    [][(/\ RecvReturned /\ inbox # <<>>
        /\ Truncated(Head(inbox).bytes) /\ Accepted(Head(inbox).bytes))
         => /\ received'.result.res = "ProtobufDecode"
            /\ inbox' = Tail(inbox)]_vars

\* C11 A creation call that fails leaves no trace, for all four kinds of
\* object and whatever the failure (a transport declare error, a descriptor
\* parse or type URL error, the parse error of an untyped subscriber after
\* its transport subscriber was declared): the registry and the objects,
\* hence the transport resources held, are as they were before the call;
\* and a registry entry is only ever removed by the destructor of an object
\* that a successful creation returned on that topic.
C11_FailedCreationLeavesNoTrace ==
    [][/\ (/\ lastResult'.op \in {"publish", "subscribe", "publish_untyped", "subscribe_untyped"}
           /\ lastResult'.res # "Ok")
          => /\ publishers' = publishers
             /\ subscribers' = subscribers
             /\ handles' = handles
       /\ \A k \in Kinds : \A t \in Registry(k) \ Registry(k)' :
             \E h \in Live(k) : handles[h].topic = t /\ ~handles'[h].live]_vars

\* subscribe_untyped has failed on its descriptors after declaring its
\* transport subscriber, on a node that has a subscriber registered
C11_Witness ==
    /\ lastResult.op = "subscribe_untyped"
    /\ lastResult.res = "ProtobufDescriptorRead"
    /\ lastResult.declared
    /\ subscribers # {}
    /\ Live("sub") # {}

\* C12 Per-publisher FIFO: a send that returns ok has issued its write
\* behind the writes of all earlier sends, which stay in their order; a
\* recv takes the oldest write, so that a typed subscriber of M receives the
\* messages of a publisher of M in the order of the send calls.
C12_PerPublisherFifo ==
    [][/\ (lastResult'.op = "send" /\ lastResult'.res = "Ok")
            => /\ Len(inbox') = Len(inbox) + 1
               /\ SubSeq(inbox', 1, Len(inbox)) = inbox
               /\ Sent(inbox'[Len(inbox')])
       /\ lastResult'.op = "recv"
            => /\ inbox # <<>>
               /\ inbox' = Tail(inbox)
               /\ (sub.typed /\ Head(inbox).header.type_url = type_url(sub.M))
                     => /\ received'.result.res = "Ok"
                        /\ received'.result.message = Head(inbox).msg]_vars

\* two messages of a publisher of StringMessage were queued, "hi" before
\* "": the recv has returned "hi", and "" is next
C12_Witness ==
    /\ sub = Subscriber(StringMessage)
    /\ lastResult.op = "recv"
    /\ received.sender = "typed"
    /\ received.result.message = Msg("string", <<104, 105>>)
    /\ Len(inbox) = 1
    /\ inbox[1].by = "typed"
    /\ inbox[1].msg = Msg("string", <<>>)

\* C13 Per-subscriber order: every recv, typed or untyped, returns a
\* message or an error and takes exactly one frame, the head of the
\* subscriber's queue; what it returns is the outcome of that frame, so the
\* results follow the delivered frames one for one, in order.
C13_RecvInDeliveryOrder ==
    [][RecvReturned
         => /\ inbox # <<>>
            /\ inbox' = Tail(inbox)
            /\ received'.sender = Head(inbox).by
            /\ received'.result.res # "Panic"
            /\ received'.result =
                 IF sub.typed
                 THEN SubscriberRecvResult(sub.M, Head(inbox).bytes)
                 ELSE UntypedSubscriberRecvResult(active_message_descriptor,
                                                  sub.file_descriptor_pools,
                                                  Head(inbox).bytes).result]_vars

\* C16 The type URL in the header of every frame a publisher writes is the
\* publisher's own, whatever the payload: M's type URL for a typed
\* publisher, the URL given to the constructor for an untyped one; and the
\* payload of an untyped publisher's frame is encoded under the descriptor
\* that this URL resolved to when the publisher was created.
C16_HeaderTypeUrlFixed ==
    [][(lastResult'.op = "send" /\ lastResult'.res = "Ok")
         => LET frame == inbox'[Len(inbox')]
                header == HeaderOf(frame)
            IN  /\ Len(inbox') = Len(inbox) + 1
                /\ header.ok
                /\ header.val.type_url = lastResult'.type_url
                /\ frame.by = "typed"
                      => \E M \in MessageTypes :
                            /\ lastResult'.type_url = type_url(M)
                            /\ frame.msg \in Messages(M)
                /\ frame.by = "untyped"
                      => \E q \in UntypedPublishers :
                            /\ q.type_url = lastResult'.type_url
                            /\ frame.msg.schema = q.message_descriptor.schema
                            /\ frame.bytes = UntypedPublisherFrame(q, frame.msg,
                                                                  header.val.message_timestamp)]_vars

\* an untyped publisher created with the URL h/S, which resolves to the
\* built-in S, has written a frame: its header says h/S
C16_Witness ==
    /\ lastResult.op = "send"
    /\ lastResult.res = "Ok"
    /\ lastResult.type_url = MkUrl(AuthH, NameS)
    /\ inbox # <<>>
    /\ inbox[Len(inbox)].by = "untyped"
    /\ HeaderOf(inbox[Len(inbox)]).val.type_url = MkUrl(AuthH, NameS)
    /\ inbox[Len(inbox)].msg = Msg("string", <<104, 105>>)

\* C17 A send performs at most one transport write: exactly one when it
\* returns ok, and that one buffer holds the header followed by the payload
\* and nothing else; none when it returns an error.  An untyped send of a
\* value that the publisher's descriptor rejects returns the serialization
\* error, whatever the transport would do.
C17_OneWritePerSend ==
    [][lastResult'.op = "send"
         => /\ lastResult'.res \in {"Ok", "Zenoh", "SerdeJsonError"}
            /\ lastResult'.res # "Ok" => inbox' = inbox
            /\ lastResult'.res = "Ok"
                  => /\ Len(inbox') = Len(inbox) + 1
                     /\ SubSeq(inbox', 1, Len(inbox)) = inbox
                     /\ LET frame == inbox'[Len(inbox')]
                            header == HeaderOf(frame)
                        IN  /\ header.ok
                            /\ header.val = frame.header
                            /\ decode_length_delimited(frame.msg.schema, header.rest)
                                 = DecodeOk(frame.msg, <<>>)
            /\ \A q \in UntypedPublishers : \A json \in JsonValues :
                  ~Deserialize(q.message_descriptor, json).ok
                    => \A zenoh_ok \in BOOLEAN :
                          UntypedPublisherSendResult(q, json, zenoh_ok).res = "SerdeJsonError"]_vars

\* an untyped send has returned the serialization error, and the queue
\* holds what an earlier send wrote
C17_Witness ==
    /\ lastResult.op = "send"
    /\ lastResult.res = "SerdeJsonError"
    /\ lastResult.type_url = MkUrl(AuthG, NameN)
    /\ Len(inbox) = 1
    /\ inbox[1].by = "typed"

C20_BoundedQueueNoDeadlock ==
    /\ Len(inbox) <= flume_bounded
    /\ inbox # <<>>
         => ENABLED ((SubscriberRecv \/ UntypedSubscriberRecv) /\ UNCHANGED lastResult)
    /\ Len(inbox) = flume_bounded
         => /\ ENABLED (\E t \in Topics : PublisherNew(t, TRUE) /\ UNCHANGED <<lastResult, wire>>)
            /\ ENABLED (\E t \in Topics : SubscriberNew(t, TRUE) /\ UNCHANGED <<lastResult, wire>>)
            /\ ENABLED (\E t \in Topics :
                          UntypedSubscriberNew(t, TRUE) /\ UNCHANGED <<lastResult, wire>>)
            /\ ENABLED (\E t \in Topics :
                          /\ UntypedPublisherNew(t, MkUrl(AuthG, NameS), TRUE)
                          /\ UNCHANGED <<lastResult, wire>>)
            /\ \A h \in HandleIds :
                  handles[h].live => ENABLED (DropHandle(h, FALSE) /\ UNCHANGED <<lastResult, wire>>)
            /\ \A k \in Kinds :
                  ENABLED ((RespRecv(k, 0) \/ RespSnapshot(k) \/ RespReply(k))
                             /\ UNCHANGED <<lastResult, wire>>)

\* the queue is full, and the subscriber has received before
C20_Witness ==
    /\ Len(inbox) = flume_bounded
    /\ received.result.res = "Ok"
    /\ sub.live

\* C14 list_nodes returns the set of the node names that the replies to
\* its query carried: the name of every node whose reply went out, one
\* element for nodes that share a name, and no other name; every node whose
\* responder was handed the query and has not failed has replied by then.
C14_ListNodes ==
    \A q \in QueryIds :
       (fabric.get[q].op = "list_nodes" /\ fabric.get[q].status = "Ok")
         => /\ fabric.get[q].names
                 = {fabric.node[n].node_name : n \in fabric.get[q].replied}
            /\ \A n \in fabric.get[q].asked :
                  fabric.resp[n]["node_names"].status # "panicked"
                    => fabric.node[n].node_name \in fabric.get[q].names

\* with alpha and beta running, list_nodes has returned {alpha, beta}
C14_Witness ==
    \E q \in QueryIds :
       /\ fabric.get[q].op = "list_nodes"
       /\ fabric.get[q].status = "Ok"
       /\ fabric.get[q].replied = {1, 2}
       /\ fabric.get[q].names = {<<97>>, <<98>>}

\* C15 For a node n that alone has its name, list_nodes_publishers(n)
\* returns one PublisherInfo for each topic in n's publishers set and
\* nothing else, and list_nodes_subscribers(n) one SubscriberInfo for each
\* topic in n's subscribers set and nothing else: no topic of the other set
\* and none of another node; a node without handles answers with the empty
\* list.
C15_ListNodesPublishersSubscribers ==
    \A q \in QueryIds : \A n \in DOMAIN fabric.node :
       (/\ fabric.get[q].op \in {"list_nodes_publishers", "list_nodes_subscribers"}
        /\ fabric.get[q].status = "Ok"
        /\ fabric.get[q].arg = fabric.node[n].node_name
        /\ \A m \in DOMAIN fabric.node :
              fabric.node[m].node_name = fabric.node[n].node_name => m = n)
         => LET infos == fabric.get[q].infos
                topics == IF fabric.get[q].op = "list_nodes_publishers"
                          THEN fabric.node[n].publishers
                          ELSE fabric.node[n].subscribers
            IN  /\ {infos[i] : i \in 1 .. Len(infos)} = topics
                /\ Len(infos) = Cardinality(topics)
                /\ topics = {} => infos = <<>>

\* list_nodes_subscribers(beta) has returned the one subscriber of a beta
\* that has two publishers, one of them on the same topic
C15_Witness ==
    \E q \in QueryIds :
       /\ fabric.get[q].op = "list_nodes_subscribers"
       /\ fabric.get[q].arg = <<98>>
       /\ fabric.get[q].status = "Ok"
       /\ fabric.get[q].infos = << <<116, 49>> >>
       /\ fabric.node[2].publishers = {<<116, 49>>, <<116, 50>>}

\* C19 Each responder loops: it takes the oldest query of its queryable,
\* builds the reply (the node's name, or the list of the set of its own
\* kind), sends exactly that reply to exactly that query and is back at the
\* top of the loop; no query is answered twice.  It ends without a panic
\* only when receiving reports the disconnect, which happens at the top of
\* the loop with nothing left to receive; a failed reply makes the task
\* panic, and nothing else ends it.  A task that has ended stays ended.
C19_ResponderLoop ==
    [][/\ \A n \in DOMAIN fabric.node : \A k \in Queryables :
         LET r == fabric.resp[n][k]
             after == fabric'.resp[n][k]
         IN  /\ (r.query = "none" /\ after.query # "none")
                  => /\ r.status = "running" /\ after.status = "running"
                     /\ r.queue # <<>>
                     /\ after.query = Head(r.queue)
                     /\ after.queue = Tail(r.queue)
                     /\ after.msg \in
                          IF k = "node_names" THEN {fabric.node[n].node_name}
                          ELSE {encode_length_delimited(EncodeList(list)) :
                                  list \in {l \in UNION {[1 .. m -> Snapshot(fabric.node[n], k)] :
                                                           m \in 0 .. 2} :
                                              /\ Len(l) = Cardinality(Snapshot(fabric.node[n], k))
                                              /\ {l[i] : i \in 1 .. Len(l)}
                                                   = Snapshot(fabric.node[n], k)}}
             /\ r.query # "none"
                  => /\ after.query \in {r.query, "none"}
                     /\ n \notin fabric.get[r.query].replied
                     /\ after.query = r.query
                          => after.msg = r.msg /\ after.status = r.status
                     /\ (after.query = "none" /\ after.status = "running")
                          => /\ fabric'.get[r.query].replied
                                  = fabric.get[r.query].replied \cup {n}
                             /\ fabric.get[r.query].status = "open"
                                  => fabric'.get[r.query].replies
                                       = Append(fabric.get[r.query].replies,
                                                Reply(TRUE, r.msg))
                             /\ after.queue = r.queue
                     /\ (after.query = "none" /\ after.status # "running")
                          => /\ after.status = "panicked"
                             /\ fabric'.get[r.query].replied = fabric.get[r.query].replied
                             /\ fabric'.get[r.query].replies = fabric.get[r.query].replies
             /\ after.status # r.status
                  => /\ r.status = "running"
                     /\ after.status = "stopped" => r.query = "none" /\ r.queue = <<>>
                     /\ after.status = "panicked" => r.query # "none"
       /\ \A n \in DOMAIN fabric.node : \A q \in QueryIds :
            (n \in fabric'.get[q].replied /\ n \notin fabric.get[q].replied)
              => fabric.resp[n][QueryableOf(fabric.get[q].op)].query = q]_vars

\* alpha's node name responder has answered two queries and runs on, and
\* beta's has panicked on a reply and answered neither
C19_Witness ==
    /\ fabric.resp[1]["node_names"].status = "running"
    /\ fabric.resp[2]["node_names"].status = "panicked"
    /\ \A q \in QueryIds :
          /\ fabric.get[q].op = "list_nodes"
          /\ fabric.get[q].replied = {1}
          /\ fabric.get[q].asked = {1, 2}

(***************************************************************************)
(* Properties of the destructors (SpecCalls).                              *)
(***************************************************************************)
\* the objects a step destroys
Dropped == {h \in HandleIds : handles[h].live /\ ~handles'[h].live}

\* C21 Removing an absent topic does not fail: the destructor of an object
\* whose topic is not in the registry set of its kind completes (it warns,
\* it does not panic), the object is gone and both sets are as they were.
C21_RemoveOfAbsentDoesNotFail ==
    [][\A h \in Dropped :
          handles[h].topic \notin Registry(handles[h].kind)
            => /\ lastResult'.op = "drop"
               /\ lastResult'.res = "Warn"
               /\ publishers' = publishers
               /\ subscribers' = subscribers]_vars

(***************************************************************************)
(* Properties of the discovery calls' errors (SpecFabric).                 *)
(***************************************************************************)
\* C22 A reply that carries an error makes the call that receives it return
\* the query reply error: list_nodes fails on the first such reply and
\* returns none of the names it has collected, list_nodes_publishers and
\* list_nodes_subscribers fail when the reply they take is one; the call
\* returns this error for no other reason; and once it has returned it,
\* nothing is retried: no query is issued again and no further reply is
\* taken.
C22_ErrorReplyFailsCall ==
    [][\A q \in QueryIds :
          LET g == fabric.get[q]
              after == fabric'.get[q]
          IN  /\ (g.status = "open" /\ after.taken # g.taken /\ ~Head(g.replies).ok)
                   => /\ after.status = "ZenohQueryReply"
                      /\ after.names = {}
                      /\ after.infos = <<>>
              /\ (after.status = "ZenohQueryReply" /\ g.status # "ZenohQueryReply")
                   => /\ g.status = "open"
                      /\ g.replies # <<>>
                      /\ ~Head(g.replies).ok
                      /\ after.taken = g.taken + 1
              /\ g.status = "ZenohQueryReply"
                   => /\ after.status = "ZenohQueryReply"
                      /\ after.asked = g.asked
                      /\ after.taken = g.taken
                      /\ after.names = {}
                      /\ after.infos = <<>>]_vars

\* list_nodes has taken the name of one node, then a reply that is an
\* error, and has returned the error
C22_Witness ==
    /\ fabric.get["q1"].op = "list_nodes"
    /\ fabric.get["q1"].status = "ZenohQueryReply"
    /\ fabric.get["q1"].taken = 2
    /\ fabric.get["q1"].replied # {}
    /\ fabric.get["q1"].names = {}

\* C23 list_nodes_publishers(name) and list_nodes_subscribers(name) return
\* an error, never an empty list, when no node answers: a call that has
\* returned without having taken a reply (no node has the name, or the node
\* that has it let go of the query) has returned the error of the closed
\* channel, or the error of the get itself; a call returns a list only when
\* it has taken the reply of a node of that name.
C23_NoAnswerIsAnError ==
    \A q \in QueryIds :
       LET g == fabric.get[q] IN
       (g.op \in {"list_nodes_publishers", "list_nodes_subscribers"}
        /\ g.status \notin {"idle", "open"})
         => /\ g.taken = 0 => (g.status \in {"Flume", "Zenoh"} /\ g.infos = <<>>)
            /\ g.replied = {} => g.status # "Ok"
            /\ g.status = "Flume" => (g.taken = 0 /\ g.open = {})
            /\ g.status = "Ok"
                 => /\ g.taken = 1
                    /\ \E n \in g.replied : fabric.node[n].node_name = g.arg

\* list_nodes_publishers of a name that no node has: the get succeeded, no
\* responder was handed the query, and the call has returned the error of
\* the closed channel
C23_Witness ==
    \E q \in QueryIds :
       /\ fabric.get[q].op = "list_nodes_publishers"
       /\ fabric.get[q].arg = <<99>>
       /\ fabric.get[q].asked = {}
       /\ fabric.get[q].status = "Flume"

(***************************************************************************)
(* Properties of the type URL (SpecCalls).                                 *)
(***************************************************************************)
\* C24 For every type URL that holds at least one '/', also one that holds
\* two or more, the message name that the descriptor is looked up by is
\* the whole of the URL after its first '/': publish_untyped with such a
\* URL, on a node whose descriptors parse, fails with InvalidTypeUrl of
\* that name when no pool defines that name (the node's descriptor list
\* only grows, so a name that no pool defines now was defined by none when
\* the call was made), and with no other name.
C24_NameIsAllAfterFirstSlash ==
    (/\ lastResult.op = "publish_untyped"
     /\ ~NoSlash(lastResult.type_url)
     /\ parse_file_descriptors(file_descriptor).ok)
      => LET url == lastResult.type_url
             name == SubSeq(url, Min(SlashPositions(url)) + 1, Len(url))
         IN  /\ message_name_from_type_url(url) = Ok(name)
             /\ InNoPool(file_descriptor, name) => lastResult.res = "InvalidTypeUrl"
             /\ lastResult.res = "InvalidTypeUrl" => lastResult.arg = name

\* the live objects of the kind and on the topic of h, other than h
Twins(h) ==
    {o \in Live(handles[h].kind) : o # h /\ handles[o].topic = handles[h].topic}

\* C25 Two live handles of one kind on one topic collapse to one registry
\* entry: a creation that succeeds on a topic that already has a live
\* handle of the kind is legal and leaves the set as it is, with both
\* objects alive; destroying one of the two removes the topic while the
\* other stays alive; and destroying an object whose topic is already gone
\* finds it absent and leaves the set as it is.
C25_TwoHandlesOneEntry ==
    [][/\ \A k \in Kinds : \A t \in Topics :
            (/\ t \in Registry(k)
             /\ \E h \in HandleIds : /\ ~handles[h].live
                                     /\ handles'[h] = Handle(TRUE, k, t))
              => /\ lastResult'.res = "Ok"
                 /\ publishers' = publishers
                 /\ subscribers' = subscribers
                 /\ \A o \in Live(k) : handles'[o] = handles[o]
       /\ \A h \in Dropped : \A k \in {handles[h].kind} : \A t \in {handles[h].topic} :
            /\ (Twins(h) # {} /\ t \in Registry(k))
                 => /\ lastResult'.res = "Ok"
                    /\ t \notin Registry(k)'
                    /\ \A o \in Twins(h) : handles'[o] = handles[o]
            /\ t \notin Registry(k)
                 => /\ lastResult'.res = "Warn"
                    /\ publishers' = publishers
                    /\ subscribers' = subscribers]_vars

(***************************************************************************)
(* Properties of the untyped subscriber's cache (SpecWire).                *)
(***************************************************************************)
\* C26 One-slot cache policy: an untyped recv of a frame with a readable
\* header whose type URL is the cached one uses the cached descriptor and
\* leaves the cache as it is; with an empty cache or another URL cached it
\* resolves the header's URL in the pools and, when that succeeds, leaves
\* exactly (header type URL, resolved descriptor) in the cache and decodes
\* with that descriptor; the cache is empty or one pair at all times, and a
\* frame whose header cannot be read does not touch it.
C26_OneSlotCachePolicy ==
    [][/\ (RecvReturned /\ ~sub.typed /\ inbox # <<>>)
            => LET header == HeaderOf(Head(inbox))
                   cache == active_message_descriptor
               IN  IF ~header.ok THEN active_message_descriptor' = cache
                   ELSE IF cache.some /\ cache.type_url = header.val.type_url
                   THEN /\ active_message_descriptor' = cache
                        /\ received'.result.desc = cache.desc
                        /\ received'.result.res # "InvalidTypeUrl"
                   ELSE LET found == search_file_descriptors(sub.file_descriptor_pools,
                                                             header.val.type_url)
                        IN  found.ok
                              => /\ active_message_descriptor'
                                      = Some(header.val.type_url, found.val)
                                 /\ received'.result.desc = found.val
       /\ (active_message_descriptor' # active_message_descriptor)
            => (RecvReturned /\ ~sub.typed)
       /\ ~active_message_descriptor'.some => active_message_descriptor' = NoCache]_vars

\* the cache holds (h/S, S) from the frame that was just decoded; the frame
\* that is next carries g/N, which the pools resolve: the next recv is a
\* miss that replaces the pair
C26_Witness ==
    /\ ~sub.typed
    /\ received.result.res = "Ok"
    /\ received.result.header.type_url = MkUrl(AuthH, NameS)
    /\ active_message_descriptor = Some(MkUrl(AuthH, NameS), Desc("builtin", NameS, "string"))
    /\ inbox # <<>>
    /\ Sent(Head(inbox))
    /\ Head(inbox).header.type_url = MkUrl(AuthG, NameN)
    /\ search_file_descriptors(sub.file_descriptor_pools, MkUrl(AuthG, NameN)).ok

(***************************************************************************)
(* Properties of the registry lock (Spec).                                 *)
(***************************************************************************)
\* C27 Introspection replies are atomic snapshots: the list a responder
\* builds is the whole registry set of its kind as it is at the instant of
\* the step that builds it, which comes after the responder received the
\* query and before it replies; the creates and destroys that happen
\* between that instant and the reply do not change the list, and the reply
\* carries it as built.  Reads and writes of the registry exclude each
\* other: no step both builds a list and changes a set, and a step that
\* changes the registry inserts or removes one topic in one set.
C27_AtomicSnapshot ==
    [][/\ \A k \in Kinds :
            /\ (resp[k].pc = "lock" /\ resp'[k].pc # "lock")
                 => /\ resp'[k].pc = "reply"
                    /\ resp'[k].msg = Registry(k)
                    /\ publishers' = publishers
                    /\ subscribers' = subscribers
            /\ resp[k].pc = "reply"
                 => /\ resp'[k].pc \in {"reply", "recv"}
                    /\ resp'[k].pc = "reply" => resp'[k].msg = resp[k].msg
            /\ resp'[k].pc = "reply" => resp[k].pc \in {"lock", "reply"}
       /\ (publishers' # publishers \/ subscribers' # subscribers)
            => /\ \A k \in Kinds : resp'[k].pc = resp[k].pc /\ resp'[k].msg = resp[k].msg
               /\ \E k \in Kinds : \E t \in Topics :
                     /\ Registry(k)' \in {Registry(k) \cup {t}, Registry(k) \ {t}}
                     /\ \A o \in Kinds \ {k} : Registry(o)' = Registry(o)]_vars

\* the publishers responder is about to reply with the list it built when
\* t1 was the only publisher; a publisher on t2 was created since
C27_Witness ==
    /\ resp["pub"].pc = "reply"
    /\ resp["pub"].msg = {"t1"}
    /\ publishers = {"t1", "t2"}
    /\ Live("pub") # {}

(***************************************************************************)
(* Properties of the registry mutex (SpecLock).                            *)
(***************************************************************************)
\* the task is queued for the guard
Waiting(task) == \E i \in 1 .. Len(mutex.waiters) : mutex.waiters[i] = task

\* the guard is held by a task only between its lock call and the end of
\* the statement or block that uses the set: never while its call is at a
\* declare, a recv or a reply, and never while it is still queued
HeldForOneSection ==
    /\ \A k \in Kinds : mutex.holder = k => resp[k].pc = "lock"
    /\ \A t \in {"create", "drop"} : mutex.holder = t => mutex.call[t].pc = "lock"
    /\ \A task \in Tasks : ~(mutex.holder = task /\ Waiting(task))

\* C28: the registry mutex is held only for one insert, one remove or one
\* snapshot and never across a transport call, and so every destructor
\* gets the guard it asks for by blocking: none ends without it.
C28_DestructorAcquiresTheGuard ==
    /\ HeldForOneSection
    /\ mutex.call["drop"].pc # "panicked"

\* C29 Failed resolution empties the cache: an untyped recv whose header's
\* type URL is not the cached one and does not resolve returns the
\* resolution's error, takes the frame, leaves the cache empty whatever it
\* held, and leaves the subscriber as it is; the recv that follows such a
\* failure, of a frame this library sent whose type URL resolves, resolves
\* it in the pools again, decodes with that descriptor and caches the pair.
C29_FailedResolutionEmptiesCache ==
    [][(RecvReturned /\ ~sub.typed /\ inbox # <<>> /\ HeaderOf(Head(inbox)).ok)
         => LET frame == Head(inbox)
                url == HeaderOf(frame).val.type_url
                cache == active_message_descriptor
                found == search_file_descriptors(sub.file_descriptor_pools, url)
            IN  /\ (~(cache.some /\ cache.type_url = url) /\ ~found.ok)
                     => /\ received'.result.res = "InvalidTypeUrl"
                        /\ active_message_descriptor' = NoCache
                        /\ inbox' = Tail(inbox)
                        /\ sub' = sub /\ sub'.live
                /\ (received.result.res = "InvalidTypeUrl" /\ Sent(frame) /\ found.ok)
                     => /\ cache = NoCache
                        /\ received'.result.res = "Ok"
                        /\ received'.result.desc = found.val
                        /\ received'.result.header = frame.header
                        /\ active_message_descriptor' = Some(url, found.val)]_vars

\* a recv has just failed to resolve its frame's type URL and the cache is
\* empty; the frame that is next was sent with g/S, the URL that was cached
\* before the failure would have been
C29_Witness ==
    /\ ~sub.typed
    /\ received.result.res = "InvalidTypeUrl"
    /\ received.result.arg = NameX
    /\ active_message_descriptor = NoCache
    /\ inbox # <<>>
    /\ Sent(Head(inbox))
    /\ Head(inbox).header.type_url = MkUrl(AuthG, NameS)
    /\ search_file_descriptors(sub.file_descriptor_pools, MkUrl(AuthG, NameS)).ok

(***************************************************************************)
(* Properties of the type check of the two subscribers (SpecWire).         *)
(***************************************************************************)
\* C30 Typed and untyped subscribers accept different frames: a typed
\* subscriber lets a frame with a readable header past its type check
\* exactly when the whole header type URL equals M's; an untyped subscriber
\* lets it past exactly when some pool defines the URL's message name,
\* whatever stands before the first '/'; so a frame that an untyped
\* publisher of h/S sent is decoded by an untyped subscriber into the
\* message that was sent, and is rejected by a typed subscriber of S with
\* MismatchedSubscriberType(expected g/S, actual h/S).
C30_TypedWholeUrlUntypedNameOnly ==
    [][(RecvReturned /\ inbox # <<>> /\ HeaderOf(Head(inbox)).ok)
         => LET frame == Head(inbox)
                url == HeaderOf(frame).val.type_url
                name == message_name_from_type_url(url)
            IN  /\ sub.typed
                     => /\ url = type_url(sub.M)
                            <=> received'.result.res # "MismatchedSubscriberType"
                        /\ received'.result.res # "InvalidTypeUrl"
                /\ ~sub.typed
                     => /\ (name.ok /\ FindMapPools(sub.file_descriptor_pools, name.val).some)
                            <=> received'.result.res # "InvalidTypeUrl"
                        /\ received'.result.res # "MismatchedSubscriberType"
                        /\ \A auth \in {AuthG, AuthH} :
                              name.ok => (search_file_descriptors(sub.file_descriptor_pools,
                                                                  MkUrl(auth, name.val)).ok
                                            <=> received'.result.res # "InvalidTypeUrl")
                /\ (frame.by = "untyped" /\ frame.header.type_url = MkUrl(AuthH, NameS))
                     => IF sub.typed
                        THEN sub.M = StringMessage
                               => received'.result =
                                    RecvErr("MismatchedSubscriberType", MkUrl(AuthG, NameS),
                                            MkUrl(AuthH, NameS), <<>>)
                        ELSE /\ received'.result.res = "Ok"
                             /\ received'.result.message = frame.msg
                             /\ received'.result.desc.name = NameS]_vars

\* an untyped subscriber has decoded the frame that an untyped publisher
\* constructed with h/S sent
C30_Witness ==
    /\ ~sub.typed
    /\ received.sender = "untyped"
    /\ received.result.res = "Ok"
    /\ received.result.header.type_url = MkUrl(AuthH, NameS)
    /\ received.result.desc = Desc("builtin", NameS, "string")

(***************************************************************************)
(* Properties of the descriptor pools of a handle (SpecPools).             *)
(***************************************************************************)
\* C31 Pools are a snapshot of the node's list at creation: a step of
\* add_file_descriptors leaves the subscriber, its pools and its cache as
\* they are; the pools of the subscriber the program holds change only in
\* a creation that succeeds, and are then the node's list as it is at that
\* step; and an untyped recv resolves its frame's type URL in the
\* subscriber's own pools, whatever the node's list has become: it decodes
\* with the descriptor they yield, or returns InvalidTypeUrl when they
\* yield none.
C31_PoolsAreCreationSnapshot ==
    [][/\ (file_descriptor' # file_descriptor)
            => /\ sub' = sub
               /\ active_message_descriptor' = active_message_descriptor
       /\ (sub' # sub)
            => /\ handles' # handles
               /\ file_descriptor' = file_descriptor
               /\ parse_file_descriptors(file_descriptor).ok
               /\ sub'.file_descriptor_pools = file_descriptor
       /\ (/\ handles' = handles /\ file_descriptor' = file_descriptor
           /\ ~sub.typed /\ inbox # <<>> /\ inbox' = Tail(inbox)
           /\ HeaderOf(Head(inbox)).ok)
            => LET url == HeaderOf(Head(inbox)).val.type_url
                   found == search_file_descriptors(sub.file_descriptor_pools, url)
               IN  IF found.ok
                   THEN /\ received'.result.desc = found.val
                        /\ received'.result.res # "InvalidTypeUrl"
                   ELSE /\ received'.result.res = "InvalidTypeUrl"
                        /\ received'.result.arg = found.arg]_vars

\* the node's list has gained the user's descriptor set, which defines N,
\* after the subscriber was created; the subscriber has since taken a frame
\* of g/N and has not resolved it
C31_Witness ==
    /\ ~sub.typed
    /\ sub.file_descriptor_pools = <<DESCRIPTOR_SET_BYTES>>
    /\ file_descriptor = <<DESCRIPTOR_SET_BYTES, UserBlob>>
    /\ received.sender = "untyped"
    /\ received.result.res = "InvalidTypeUrl"
    /\ received.result.arg = NameN

(***************************************************************************)
(* Properties of discovery among nodes that share a name (SpecFabric).     *)
(***************************************************************************)
\* C32 One reply, the first: a list_nodes_publishers / list_nodes_subscribers
\* call returns at the first reply it takes from its channel; when that
\* reply is a list, the result is that reply's list, which is the list of
\* the set of one node that has the name asked for and has replied; the
\* replies that are behind it in the channel are dropped with the channel,
\* and a reply that goes out after the call returned changes nothing.
C32_FirstReplyOnly ==
    [][\A q \in QueryIds :
         LET get == fabric.get[q]
             after == fabric'.get[q]
         IN  get.op \in {"list_nodes_publishers", "list_nodes_subscribers"}
               => /\ (get.status = "open" /\ after.status # "open" /\ get.replies # <<>>)
                       => /\ get.taken = 0 /\ after.taken = 1
                          /\ after.replies = <<>>
                          /\ after.status = "Ok"
                               => /\ Head(get.replies).ok
                                  /\ after.infos =
                                       decode_length_delimited("list",
                                                               Head(get.replies).payload).val
                                  /\ \E n \in get.replied :
                                        /\ fabric.node[n].node_name = get.arg
                                        /\ {after.infos[i] : i \in 1 .. Len(after.infos)}
                                             = Snapshot(fabric.node[n], QueryableOf(get.op))
                                        /\ Len(after.infos)
                                             = Cardinality(Snapshot(fabric.node[n],
                                                                    QueryableOf(get.op)))
                  /\ after.taken <= 1
                  /\ get.status \notin {"idle", "open"}
                       => after.infos = get.infos /\ after.status = get.status]_vars

\* two nodes are called alpha, with publishers on t1 and on t2; both have
\* replied to list_nodes_publishers(alpha), and the call has returned the
\* list of the second
C32_Witness ==
    \E q \in QueryIds :
       /\ fabric.node[1].node_name = <<97>> /\ fabric.node[2].node_name = <<97>>
       /\ fabric.get[q].op = "list_nodes_publishers"
       /\ fabric.get[q].arg = <<97>>
       /\ fabric.get[q].status = "Ok"
       /\ fabric.get[q].replied = {1, 2}
       /\ fabric.get[q].infos = << <<116, 50>> >>
       /\ fabric.node[1].publishers = {<<116, 49>>}

====
